---- MODULE Spec2Model ----
(***************************************************************************)
(* State-machine model of the text tools of doc-tools:                     *)
(*   - process_content, the quote-aware paragraph splitter of              *)
(*     src/02-Doc&Md (one action per branch of its scanning loop);         *)
(*   - analyze_sentence / analyze_text / analyze_markdown_content, the     *)
(*     information-density scorers of src/03-Doc&Analy/docana.py (the      *)
(*     "pdf" analyzer) and mdana.py (the "md" analyzer);                   *)
(*   - analyze_pdf_folder / analyze_markdown_folder, the batch loops, and  *)
(*     the ranking of generate_summary_report.                             *)
(*                                                                         *)
(* A text is a sequence of characters; a character is a string.  ASCII    *)
(* letters, digits and most signs stand for themselves; every other        *)
(* character is written by its code point, "uXXXX": "u0022" is the ASCII   *)
(* double quote, "u0027" the ASCII single quote, "u000A" the newline,      *)
(* "u0060" the backtick, "u3002" "uFF1F" "uFF01" the full-width full stop, *)
(* question mark and exclamation mark, "u4ECA" "u5929" the word jin-tian   *)
(* (today).                                                                *)
(*                                                                         *)
(* Python floats are modelled by exact rationals [n |-> _, d |-> _]        *)
(* (d > 0, lowest terms); weights and scores are kept in tenths.  The      *)
(* specification SpecCorpus models them as doubles, bit for bit.           *)
(***************************************************************************)
EXTENDS Integers, Sequences, FiniteSets, TLC

VARIABLES
    \* ---- process_content ----
    content,              \* the input text
    i,                    \* loop index (0-based, as in the source)
    in_quotes,            \* scanner state
    current_quote_start,  \* the opening quote pending, or None
    result,               \* list of output pieces
    processed_content,    \* the returned text (set when pc = "done")
    pc,                   \* position of the running function
    \* ---- analyze_sentence ----
    analyzer,             \* "pdf" (docana.py) or "md" (mdana.py)
    sentence,             \* the argument of analyze_sentence
    context,              \* its context argument (md), or None
    sent_result,          \* what analyze_sentence returned
    \* ---- analyze_pdf_folder / analyze_markdown_folder ----
    PDF_AVAILABLE,        \* the module flag of docana.py (lines 15, 18)
    files,                \* pdf_files / md_files: the files of the folder
    idx,                  \* number of files the loop has taken
    results,              \* the DocumentRecords
    failed_files,         \* the FailureRecords
    report                \* what generate_reports wrote, or None

segVars == <<content, i, in_quotes, current_quote_start, result,
             processed_content>>

sentVars == <<analyzer, sentence, context, sent_result>>

batchVars == <<PDF_AVAILABLE, files, idx, results, failed_files, report>>

vars == <<content, i, in_quotes, current_quote_start, result,
          processed_content, pc, analyzer, sentence, context, sent_result,
          PDF_AVAILABLE, files, idx, results, failed_files, report>>

\* Python's None: where a string is expected, and where a dict is expected
None == "None"
NoneRec == [is_none |-> TRUE]
\* the empty dict {}
EmptyDict == [is_empty |-> TRUE]

(***************************************************************************)
(* Bounds of the model.                                                    *)
(***************************************************************************)
MaxLen == 4        \* longest enumerated input text of process_content
MaxTokens == 3     \* most pieces in an enumerated sentence

(***************************************************************************)
(* Generic helpers.                                                        *)
(***************************************************************************)
RECURSIVE Flatten(_)
Flatten(ss) == IF ss = <<>> THEN <<>> ELSE Head(ss) \o Flatten(Tail(ss))

SeqsUpTo(S, n) == UNION {[1..k -> S] : k \in 0..n}

(***************************************************************************)
(* process_content  (src/02-Doc&Md, lines 15-67)                           *)
(***************************************************************************)
DQ == "u0022"
SQ == "u0027"
NL == "u000A"
SP == " "
BT == "u0060"
FwPeriod   == "u3002"
FwQuestion == "uFF1F"
FwExclaim  == "uFF01"

\* quote_pairs: the dict literal lists six entries, all written with the
\* ASCII quote characters, so it has two keys.
quote_pairs == [c \in {DQ, SQ} |-> c]

\* quote_pairs.get(current_quote_start, '')
QuotePairsGet(q) == IF q \in DOMAIN quote_pairs THEN quote_pairs[q] ELSE ""

\* the list ['。', '？', '！'] of line 52
TerminalMarks == {FwPeriod, FwQuestion, FwExclaim}

\* the piece '\n\n' appended at line 56
BREAK == <<NL, NL>>

\* lines 53-56: what the punctuation branch appends to result
PunctPieces_AlwaysBreak(char, inq) == <<<<char>>, BREAK>>

PunctPieces_NeverBreak(char, inq) == <<<<char>>>>

PunctPieces_QuestionBreaks(char, inq) ==
    IF ~inq \/ char = FwQuestion THEN <<<<char>>, BREAK>> ELSE <<<<char>>>>

PunctPieces(char, inq) ==
    IF ~inq THEN <<<<char>>, BREAK>> ELSE <<<<char>>>>

\* re.sub(r'\n{3,}', r'\n\n', s): run is the number of newlines just read
RECURSIVE CollapseFrom(_, _)
CollapseFrom(s, run) ==
    IF s = <<>> THEN <<>>
    ELSE IF Head(s) = NL
         THEN IF run >= 2 THEN CollapseFrom(Tail(s), run + 1)
                          ELSE <<NL>> \o CollapseFrom(Tail(s), run + 1)
         ELSE <<Head(s)>> \o CollapseFrom(Tail(s), 0)

\* a collapse that leaves three newlines of a long run
RECURSIVE CollapseFrom_ToThree(_, _)
CollapseFrom_ToThree(s, run) ==
    IF s = <<>> THEN <<>>
    ELSE IF Head(s) = NL
         THEN IF run >= 3 THEN CollapseFrom_ToThree(Tail(s), run + 1)
              ELSE <<NL>> \o CollapseFrom_ToThree(Tail(s), run + 1)
         ELSE <<Head(s)>> \o CollapseFrom_ToThree(Tail(s), 0)

CollapseNewlines_ToThree(s) == CollapseFrom_ToThree(s, 0)

\* no collapse at all
CollapseNewlines_Kept(s) == s

CollapseNewlines(s) == CollapseFrom(s, 0)

\* ''.join(result)
Join(pieces) == Flatten(pieces)

\* lines 38-60 as a function of the text: the pieces the loop appends for
\* the text s when it starts in the state inq, q
RECURSIVE ScanPieces(_, _, _)
ScanPieces(s, inq, q) ==
    IF s = <<>> THEN <<>>
    ELSE IF ~inq /\ Head(s) \in DOMAIN quote_pairs
    THEN <<<<Head(s)>>>> \o ScanPieces(Tail(s), TRUE, Head(s))
    ELSE IF inq /\ Head(s) = QuotePairsGet(q)
    THEN <<<<Head(s)>>>> \o ScanPieces(Tail(s), FALSE, None)
    ELSE IF Head(s) \in TerminalMarks
    THEN PunctPieces(Head(s), inq) \o ScanPieces(Tail(s), inq, q)
    ELSE <<<<Head(s)>>>> \o ScanPieces(Tail(s), inq, q)

\* process_content(s), lines 15-67
ProcessContent(s) == CollapseNewlines(Join(ScanPieces(s, FALSE, None)))

SegAlphabet == {DQ, SQ, FwPeriod, FwQuestion, ".", NL, "a"}

\* test_content of test_quote_processing (lines 183-185), with the CJK
\* ideographs, which the scanner copies like any other character, written "w"
TestContent ==
    <<DQ, "w", "w", "w", FwQuestion, DQ, NL,
      DQ, "S", "U", "7", "w", "w", "B", "B", "A", "w", FwQuestion, DQ, NL,
      "w", "w", FwPeriod, "w", "w", FwExclaim, "w", DQ, "w", "w", FwPeriod,
      "w", "w", FwExclaim, DQ, "w", "w", FwPeriod>>

\* the curly double quotes U+201C, U+201D around a sentence, and a sentence
\* behind them
LDQ == "u201C"
RDQ == "u201D"
CjkQuoted == <<LDQ, "w", FwPeriod, "w", RDQ, "w", FwPeriod>>

SegInputs == SeqsUpTo(SegAlphabet, MaxLen) \cup {TestContent, CjkQuoted}

SegInit ==
    /\ content \in SegInputs
    /\ i = 0
    /\ in_quotes = FALSE
    /\ current_quote_start = None
    /\ result = <<>>
    /\ processed_content = <<>>
    /\ pc = "scan"
    /\ analyzer = None /\ sentence = <<>> /\ context = NoneRec
    /\ sent_result = NoneRec
    /\ PDF_AVAILABLE = TRUE /\ files = <<>> /\ idx = 0
    /\ results = <<>> /\ failed_files = <<>> /\ report = NoneRec

char == content[i + 1]

\* lines 42-45
ScanOpenQuote ==
    /\ pc = "scan" /\ i < Len(content)
    /\ ~in_quotes /\ char \in DOMAIN quote_pairs
    /\ in_quotes' = TRUE
    /\ current_quote_start' = char
    /\ result' = Append(result, <<char>>)
    /\ i' = i + 1
    /\ UNCHANGED <<content, processed_content, pc>>
    /\ UNCHANGED sentVars
    /\ UNCHANGED batchVars

\* lines 47-50
ScanCloseQuote ==
    /\ pc = "scan" /\ i < Len(content)
    /\ ~(~in_quotes /\ char \in DOMAIN quote_pairs)
    /\ in_quotes /\ char = QuotePairsGet(current_quote_start)
    /\ in_quotes' = FALSE
    /\ current_quote_start' = None
    /\ result' = Append(result, <<char>>)
    /\ i' = i + 1
    /\ UNCHANGED <<content, processed_content, pc>>
    /\ UNCHANGED sentVars
    /\ UNCHANGED batchVars

\* lines 52-56
ScanPunct ==
    /\ pc = "scan" /\ i < Len(content)
    /\ ~(~in_quotes /\ char \in DOMAIN quote_pairs)
    /\ ~(in_quotes /\ char = QuotePairsGet(current_quote_start))
    /\ char \in TerminalMarks
    /\ result' = result \o PunctPieces(char, in_quotes)
    /\ i' = i + 1
    /\ UNCHANGED <<content, in_quotes, current_quote_start,
                   processed_content, pc>>
    /\ UNCHANGED sentVars
    /\ UNCHANGED batchVars

\* lines 57-58
ScanOther ==
    /\ pc = "scan" /\ i < Len(content)
    /\ ~(~in_quotes /\ char \in DOMAIN quote_pairs)
    /\ ~(in_quotes /\ char = QuotePairsGet(current_quote_start))
    /\ char \notin TerminalMarks
    /\ result' = Append(result, <<char>>)
    /\ i' = i + 1
    /\ UNCHANGED <<content, in_quotes, current_quote_start,
                   processed_content, pc>>
    /\ UNCHANGED sentVars
    /\ UNCHANGED batchVars

\* lines 62-67: the loop has ended; join, collapse, return
ScanReturn ==
    /\ pc = "scan" /\ i >= Len(content)
    /\ processed_content' = CollapseNewlines(Join(result))
    /\ pc' = "done"
    /\ UNCHANGED <<content, i, in_quotes, current_quote_start, result>>
    /\ UNCHANGED sentVars
    /\ UNCHANGED batchVars

SegNext ==
    \/ ScanOpenQuote
    \/ ScanCloseQuote
    \/ ScanPunct
    \/ ScanOther
    \/ ScanReturn

SpecSeg == SegInit /\ [][SegNext]_vars

(***************************************************************************)
(* C1: a terminal mark read while the scanner is in the quoted state is    *)
(* copied to the output and no paragraph break is inserted after it; a     *)
(* step appends a break only when it reads a terminal mark in the          *)
(* unquoted state.                                                         *)
(***************************************************************************)
C1_QuotedMarkNoBreak ==
    [][ /\ (pc = "scan" /\ i < Len(content) /\ char \in TerminalMarks
              /\ in_quotes)
           => (result' = Append(result, <<char>>) /\ in_quotes')
        /\ (\E k \in (Len(result) + 1)..Len(result') : result'[k] = BREAK)
           => (char \in TerminalMarks /\ ~in_quotes
               /\ result' = result \o <<<<char>>, BREAK>>) ]_vars

\* a terminal mark has just been read inside a quoted span
C1_Witness ==
    /\ pc = "scan" /\ i > 0 /\ in_quotes
    /\ content[i] \in TerminalMarks
    /\ result[Len(result)] = <<content[i]>>

(***************************************************************************)
(* Exact rationals standing for the floats of the scorers.                 *)
(***************************************************************************)
Abs(x) == IF x < 0 THEN -x ELSE x

RECURSIVE GCD(_, _)
GCD(a, b) == IF b = 0 THEN a ELSE GCD(b, a % b)

\* the quotient a / b (b > 0), in lowest terms
Rat(a, b) ==
    LET g == GCD(Abs(a), b) IN [n |-> a \div g, d |-> b \div g]

RatZero == [n |-> 0, d |-> 1]
RatGT(x, y) == x.n * y.d > y.n * x.d
RatAdd(x, y) == Rat(x.n * y.d + y.n * x.d, x.d * y.d)
RatDivInt(x, k) == Rat(x.n, x.d * k)

Range(f) == {f[k] : k \in DOMAIN f}

(***************************************************************************)
(* Configuration of the two analyzers (__init__).                          *)
(***************************************************************************)
\* self.time_keywords of docana.py, lines 39-42
pdf_time_keywords ==
    << <<"u5E74">>, <<"u6708">>, <<"u65E5">>, <<"u65F6">>, <<"u5206">>,
       <<"u79D2">>, <<"u4ECA", "u5929">>, <<"u6628", "u5929">>,
       <<"u660E", "u5929">>, <<"u73B0", "u5728">>, <<"u76EE", "u524D">>,
       <<"u5F53", "u524D">>, <<"u8FD1", "u671F">>, <<"u6700", "u8FD1">>,
       <<"u672A", "u6765">>, <<"u8FC7", "u53BB">>, <<"u4EE5", "u524D">>,
       <<"u4E4B", "u540E">> >>

\* self.conjunction_keywords of docana.py, lines 44-47
pdf_conjunction_keywords ==
    << <<"u56E0", "u6B64">>, <<"u6240", "u4EE5">>, <<"u7136", "u800C">>,
       <<"u4F46", "u662F">>, <<"u540C", "u65F6">>, <<"u53E6", "u5916">>,
       <<"u6B64", "u5916">>, <<"u800C", "u4E14">>, <<"u4E0D", "u8FC7">>,
       <<"u867D", "u7136">>, <<"u5C3D", "u7BA1">>, <<"u7531", "u4E8E">>,
       <<"u9274", "u4E8E">>, <<"u57FA", "u4E8E">>, <<"u901A", "u8FC7">> >>

\* self.modifier_keywords of docana.py, lines 49-52
pdf_modifier_keywords ==
    << <<"u5F88">>, <<"u975E", "u5E38">>, <<"u7279", "u522B">>,
       <<"u5341", "u5206">>, <<"u76F8", "u5F53">>, <<"u6BD4", "u8F83">>,
       <<"u8F83", "u4E3A">>, <<"u6781", "u5176">>, <<"u76F8", "u5BF9">>,
       <<"u57FA", "u672C">>, <<"u5927", "u6982">>, <<"u53EF", "u80FD">>,
       <<"u6216", "u8BB8">>, <<"u4F3C", "u4E4E">>, <<"u597D", "u50CF">> >>

\* self.professional_terms of docana.py, lines 55-58
pdf_professional_terms ==
    << <<"u6570", "u636E">>, <<"u5206", "u6790">>, <<"u7CFB", "u7EDF">>,
       <<"u5E73", "u53F0">>, <<"u6280", "u672F">>, <<"u7B97", "u6CD5">>,
       <<"u6A21", "u578B">>, <<"u6846", "u67B6">>, <<"u67B6", "u6784">>,
       <<"u65B9", "u6848">>, <<"u7B56", "u7565">>, <<"u673A", "u5236">>,
       <<"u6D41", "u7A0B">>, <<"u6807", "u51C6">>, <<"u89C4", "u8303">>,
       <<"u6307", "u6807">> >>

\* self.time_keywords of mdana.py, lines 37-41
md_time_keywords ==
    << <<"u5E74">>, <<"u6708">>, <<"u65E5">>, <<"u65F6">>, <<"u5206">>,
       <<"u79D2">>, <<"u4ECA", "u5929">>, <<"u6628", "u5929">>,
       <<"u660E", "u5929">>, <<"u73B0", "u5728">>, <<"u76EE", "u524D">>,
       <<"u5F53", "u524D">>, <<"u8FD1", "u671F">>, <<"u6700", "u8FD1">>,
       <<"u672A", "u6765">>, <<"u8FC7", "u53BB">>, <<"u4EE5", "u524D">>,
       <<"u4E4B", "u540E">>, <<"2", "0", "2", "3">>, <<"2", "0", "2", "4">>,
       <<"2", "0", "2", "5">> >>

\* self.conjunction_keywords of mdana.py, lines 43-47
md_conjunction_keywords ==
    << <<"u56E0", "u6B64">>, <<"u6240", "u4EE5">>, <<"u7136", "u800C">>,
       <<"u4F46", "u662F">>, <<"u540C", "u65F6">>, <<"u53E6", "u5916">>,
       <<"u6B64", "u5916">>, <<"u800C", "u4E14">>, <<"u4E0D", "u8FC7">>,
       <<"u867D", "u7136">>, <<"u5C3D", "u7BA1">>, <<"u7531", "u4E8E">>,
       <<"u9274", "u4E8E">>, <<"u57FA", "u4E8E">>, <<"u901A", "u8FC7">>,
       <<"u9996", "u5148">>, <<"u5176", "u6B21">>, <<"u6700", "u540E">>,
       <<"u603B", "u4E4B">>, <<"u7EFC", "u4E0A">>,
       <<"u6362", "u8A00", "u4E4B">> >>

\* self.modifier_keywords of mdana.py, lines 49-53
md_modifier_keywords ==
    << <<"u5F88">>, <<"u975E", "u5E38">>, <<"u7279", "u522B">>,
       <<"u5341", "u5206">>, <<"u76F8", "u5F53">>, <<"u6BD4", "u8F83">>,
       <<"u8F83", "u4E3A">>, <<"u6781", "u5176">>, <<"u76F8", "u5BF9">>,
       <<"u57FA", "u672C">>, <<"u5927", "u6982">>, <<"u53EF", "u80FD">>,
       <<"u6216", "u8BB8">>, <<"u4F3C", "u4E4E">>, <<"u597D", "u50CF">>,
       <<"u633A">>, <<"u86EE">>, <<"u8FD8", "u662F">>, <<"u6BD4", "u8F83">> >>

\* self.professional_terms of mdana.py, lines 56-62
md_professional_terms ==
    << <<"u7B97", "u6CD5">>, <<"u6570", "u636E", "u7ED3", "u6784">>,
       <<"u673A", "u5668", "u5B66", "u4E60">>,
       <<"u6DF1", "u5EA6", "u5B66", "u4E60">>,
       <<"u4EBA", "u5DE5", "u667A", "u80FD">>,
       <<"u795E", "u7ECF", "u7F51", "u7EDC">>, <<"u6570", "u636E", "u5E93">>,
       <<"u67B6", "u6784">>, <<"u6846", "u67B6">>, <<"A", "P", "I">>,
       <<"u63A5", "u53E3">>, <<"u534F", "u8BAE">>,
       <<"u670D", "u52A1", "u5668">>, <<"u5BA2", "u6237", "u7AEF">>,
       <<"u524D", "u7AEF">>, <<"u540E", "u7AEF">>, <<"u5168", "u6808">>,
       <<"u5FAE", "u670D", "u52A1">>, <<"u5BB9", "u5668">>,
       <<"u4E91", "u8BA1", "u7B97">>, <<"u5927", "u6570", "u636E">>,
       <<"u533A", "u5757", "u94FE">>, <<"u7269", "u8054", "u7F51">>,
       <<"u8FB9", "u7F18", "u8BA1", "u7B97">>, <<"u5206", "u5E03", "u5F0F">>,
       <<"u5E76", "u53D1">>, <<"u5F02", "u6B65">>, <<"u540C", "u6B65">>,
       <<"u7F13", "u5B58">>, <<"u7D22", "u5F15">>, <<"u4F18", "u5316">>,
       <<"u6027", "u80FD">>, <<"u5B89", "u5168">>, <<"u52A0", "u5BC6">>,
       <<"u8BA4", "u8BC1">>, <<"u6388", "u6743">> >>

time_keywords(an) ==
    IF an = "pdf" THEN pdf_time_keywords ELSE md_time_keywords
conjunction_keywords(an) ==
    IF an = "pdf" THEN pdf_conjunction_keywords ELSE md_conjunction_keywords
modifier_keywords(an) ==
    IF an = "pdf" THEN pdf_modifier_keywords ELSE md_modifier_keywords
professional_terms(an) ==
    IF an = "pdf" THEN pdf_professional_terms ELSE md_professional_terms

\* self.weights, in tenths (3.0 is 30): docana.py lines 28-36
pdf_weights ==
    [number |-> 30, time |-> 25, entity |-> 20, professional |-> 20,
     verb |-> 15, conjunction |-> 10, modifier |-> -5]

\* self.weights, in tenths: mdana.py lines 22-34
md_weights ==
    [number |-> 30, time |-> 25, entity |-> 20, professional |-> 20,
     code |-> 25, link |-> 15, verb |-> 15, conjunction |-> 10,
     modifier |-> -5, list_item |-> 12, heading |-> 18]

\* the literals of the quality ladder: 0.15 / 0.08 (docana.py 134, 136) and
\* 0.12 / 0.06 (mdana.py 223, 225)
HighThreshold(an)   == IF an = "pdf" THEN Rat(15, 100) ELSE Rat(12, 100)
MediumThreshold(an) == IF an = "pdf" THEN Rat(8, 100)  ELSE Rat(6, 100)

(***************************************************************************)
(* Character classes of Python's str and re.                               *)
(***************************************************************************)
Digits == {"0", "1", "2", "3", "4", "5", "6", "7", "8", "9"}

AsciiLetters ==
    {"a", "b", "c", "d", "e", "f", "g", "h", "i", "j", "k", "l", "m", "n",
     "o", "p", "q", "r", "s", "t", "u", "v", "w", "x", "y", "z",
     "A", "B", "C", "D", "E", "F", "G", "H", "I", "J", "K", "L", "M", "N",
     "O", "P", "Q", "R", "S", "T", "U", "V", "W", "X", "Y", "Z"}

\* the words the example inputs use beside the configured vocabularies
W_today  == <<"u4ECA", "u5929">>           \* jin-tian, today
W_de     == <<"u7684">>                    \* de
W_sales  == <<"u9500", "u552E", "u989D">>  \* xiao-shou-e, sales volume
W_growth == <<"u589E", "u957F">>           \* zeng-zhang, growth
W_le     == <<"u4E86">>                    \* le
W_algo   == <<"u7B97", "u6CD5">>           \* suan-fa, algorithm
W_so     == <<"u56E0", "u6B64">>           \* yin-ci, therefore
W_very   == <<"u5F88">>                    \* hen, very

VocabularyWords ==
    UNION {Range(time_keywords(an)) \cup Range(conjunction_keywords(an))
           \cup Range(modifier_keywords(an))
           \cup Range(professional_terms(an)) : an \in {"pdf", "md"}}

\* the CJK ideographs (U+4E00..U+9FFF) that occur in the model
Ideographs ==
    (UNION {Range(w) : w \in VocabularyWords
                           \cup {W_de, W_sales, W_growth, W_le}})
        \ (Digits \cup AsciiLetters)

\* str.isalpha() of one character
IsAlphaChar(c) == c \in AsciiLetters \cup Ideographs

\* str.strip() and \s: the whitespace characters that occur in the model
\* (space, newline, tab U+0009, ideographic space U+3000)
TAB == "u0009"
IdeoSpace == "u3000"
Whitespace == {SP, NL, TAB, IdeoSpace}

RECURSIVE LStrip(_)
LStrip(s) ==
    IF s # <<>> /\ Head(s) \in Whitespace THEN LStrip(Tail(s)) ELSE s

RECURSIVE RStrip(_)
RStrip(s) ==
    IF s # <<>> /\ s[Len(s)] \in Whitespace
    THEN RStrip(SubSeq(s, 1, Len(s) - 1)) ELSE s

Strip(s) == RStrip(LStrip(s))

\* t in word (substring test of str)
IsSubstring(t, w) ==
    \E k \in 0..(Len(w) - Len(t)) : SubSeq(w, k + 1, k + Len(t)) = t

\* length of the longest prefix of s whose characters are all in S
RECURSIVE SpanOf(_, _)
SpanOf(s, S) ==
    IF s # <<>> /\ Head(s) \in S THEN 1 + SpanOf(Tail(s), S) ELSE 0

Drop(s, k) == SubSeq(s, k + 1, Len(s))

\* index of the first occurrence of c in s, 0 when there is none
IndexOf(s, c) ==
    LET hits == {k \in DOMAIN s : s[k] = c}
    IN  IF hits = {} THEN 0 ELSE CHOOSE k \in hits : \A m \in hits : k <= m

(***************************************************************************)
(* jieba.lcut: the third-party dictionary tokenizer called at docana.py    *)
(* line 105 and mdana.py line 181.  It is modelled by forward longest      *)
(* match against the dictionary words; a run of ASCII letters and digits   *)
(* (with a decimal part and a percent sign) is one token; any other        *)
(* character is a token of its own.  The tokens concatenate to the input.  *)
(***************************************************************************)
JiebaDict == VocabularyWords \cup {W_de, W_sales, W_growth, W_le}

\* the length of the longest dictionary word
MaxWordLen ==
    CHOOSE n \in {Len(w) : w \in JiebaDict} :
        \A w \in JiebaDict : Len(w) <= n

\* length of the token that starts s (s is not empty)
JiebaTokenLen(s) ==
    IF Head(s) \in AsciiLetters \cup Digits
    THEN LET a == SpanOf(s, AsciiLetters \cup Digits)
             r == Drop(s, a)
             f == IF r # <<>> /\ Head(r) = "." /\ SpanOf(Tail(r), Digits) > 0
                  THEN 1 + SpanOf(Tail(r), Digits) ELSE 0
             r2 == Drop(s, a + f)
         IN  a + f + (IF r2 # <<>> /\ Head(r2) = "%" THEN 1 ELSE 0)
    ELSE LET hits == {k \in 1..MaxWordLen :
                         k <= Len(s) /\ SubSeq(s, 1, k) \in JiebaDict}
         IN  IF hits = {} THEN 1
             ELSE CHOOSE k \in hits : \A m \in hits : m <= k

RECURSIVE lcut(_)
lcut(s) ==
    IF s = <<>> THEN <<>>
    ELSE LET k == JiebaTokenLen(s)
         IN  <<SubSeq(s, 1, k)>> \o lcut(Drop(s, k))

(***************************************************************************)
(* The regular expressions of analyze_sentence.                            *)
(***************************************************************************)
\* len(re.findall(r'\d+\.?\d*', s))
CountNumbers_PerDigit(s) == Len(SelectSeq(s, LAMBDA c : c \in Digits))

RECURSIVE CountNumbers(_)
CountNumbers(s) ==
    IF s = <<>> THEN 0
    ELSE IF Head(s) \in Digits
    THEN LET a == SpanOf(s, Digits)
             r == Drop(s, a)
             dot == IF r # <<>> /\ Head(r) = "." THEN 1 ELSE 0
             b == SpanOf(Drop(s, a + dot), Digits)
         IN  1 + CountNumbers(Drop(s, a + dot + b))
    ELSE CountNumbers(Tail(s))

\* len(re.findall(r'`[^`]+`', s))
RECURSIVE CountInlineCode(_)
CountInlineCode(s) ==
    IF s = <<>> THEN 0
    ELSE IF Head(s) = BT
    THEN LET q == IndexOf(Tail(s), BT)     \* the next backtick
         IN  IF q >= 2 THEN 1 + CountInlineCode(Drop(s, q + 1))
             ELSE CountInlineCode(Tail(s))
    ELSE CountInlineCode(Tail(s))

\* length of the match of r'\[([^\]]+)\]\([^\)]+\)' at the start of s, 0
\* when it does not match there
LinkMatchLen(s) ==
    IF s = <<>> \/ Head(s) # "[" THEN 0
    ELSE LET q == IndexOf(Tail(s), "]")         \* s[q + 1] is the first ]
         IN  IF q < 2 \/ q + 2 > Len(s) \/ s[q + 2] # "(" THEN 0
             ELSE LET r == IndexOf(Drop(s, q + 2), ")")
                  IN  IF r < 2 THEN 0 ELSE q + 2 + r

\* len(re.findall(r'\[([^\]]+)\]\([^\)]+\)', s))
RECURSIVE CountLinks(_)
CountLinks(s) ==
    IF s = <<>> THEN 0
    ELSE LET m == LinkMatchLen(s)
         IN  IF m > 0 THEN 1 + CountLinks(Drop(s, m))
             ELSE CountLinks(Tail(s))

(***************************************************************************)
(* analyze_sentence  (docana.py lines 99-148, mdana.py lines 175-238)      *)
(***************************************************************************)
\* the stats dict: docana.py lines 112-119, mdana.py lines 188-197
ExtractStats(an, s) ==
    LET words == lcut(s)
        IsTime(w) == \E t \in Range(time_keywords(an)) : IsSubstring(t, w)
        IsProf(w) == w \in Range(professional_terms(an))
        IsConj(w) == w \in Range(conjunction_keywords(an))
        IsMod(w)  == w \in Range(modifier_keywords(an))
        IsEnt(w)  == Len(w) > 1 /\ \A c \in Range(w) : IsAlphaChar(c)
        common ==
            [numbers            |-> CountNumbers(s),
             time_words         |-> Cardinality({k \in DOMAIN words : IsTime(words[k])}),
             professional_terms |-> Cardinality({k \in DOMAIN words : IsProf(words[k])}),
             conjunctions       |-> Cardinality({k \in DOMAIN words : IsConj(words[k])}),
             modifiers          |-> Cardinality({k \in DOMAIN words : IsMod(words[k])}),
             entities           |-> Cardinality({k \in DOMAIN words : IsEnt(words[k])})]
    IN  IF an = "pdf" THEN common
        ELSE [numbers            |-> common.numbers,
              time_words         |-> common.time_words,
              professional_terms |-> common.professional_terms,
              conjunctions       |-> common.conjunctions,
              modifiers          |-> common.modifiers,
              entities           |-> common.entities,
              code_snippets      |-> CountInlineCode(s),
              links              |-> CountLinks(s)]

\* mdana.py lines 200-205; the pdf scorer has no context
ContextBonus_BlockquoteCounts(an, ctx) ==
    IF an = "pdf" \/ ctx = NoneRec THEN 0
    ELSE (IF ctx.is_heading THEN md_weights.heading ELSE 0)
         + (IF ctx.is_list_item \/ ctx.is_blockquote
            THEN md_weights.list_item ELSE 0)

ContextBonus_HeadingOnly(an, ctx) ==
    IF an = "pdf" \/ ctx = NoneRec THEN 0
    ELSE IF ctx.is_heading THEN md_weights.heading
    ELSE IF ctx.is_list_item THEN md_weights.list_item ELSE 0

ContextBonus(an, ctx) ==
    IF an = "pdf" \/ ctx = NoneRec THEN 0
    ELSE (IF ctx.is_heading THEN md_weights.heading ELSE 0)
         + (IF ctx.is_list_item THEN md_weights.list_item ELSE 0)

\* info_score, in tenths: docana.py lines 122-128, mdana.py lines 208-217
InfoScore_EntitiesCounted(an, stats, bonus) ==
    IF an = "pdf"
    THEN stats.numbers * pdf_weights.number
         + stats.time_words * pdf_weights.time
         + stats.professional_terms * pdf_weights.professional
         + stats.conjunctions * pdf_weights.conjunction
         + stats.modifiers * pdf_weights.modifier
         + stats.entities * pdf_weights.entity
    ELSE stats.numbers * md_weights.number
         + stats.time_words * md_weights.time
         + stats.professional_terms * md_weights.professional
         + stats.conjunctions * md_weights.conjunction
         + stats.modifiers * md_weights.modifier
         + stats.entities * md_weights.entity
         + stats.code_snippets * md_weights.code
         + stats.links * md_weights.link
         + bonus

InfoScore_ProfessionalAsVerb(an, stats, bonus) ==
    IF an = "pdf"
    THEN stats.numbers * pdf_weights.number
         + stats.time_words * pdf_weights.time
         + stats.professional_terms * pdf_weights.verb
         + stats.conjunctions * pdf_weights.conjunction
         + stats.modifiers * pdf_weights.modifier
    ELSE stats.numbers * md_weights.number
         + stats.time_words * md_weights.time
         + stats.professional_terms * md_weights.verb
         + stats.conjunctions * md_weights.conjunction
         + stats.modifiers * md_weights.modifier
         + stats.code_snippets * md_weights.code
         + stats.links * md_weights.link
         + bonus

InfoScore(an, stats, bonus) ==
    IF an = "pdf"
    THEN stats.numbers * pdf_weights.number
         + stats.time_words * pdf_weights.time
         + stats.professional_terms * pdf_weights.professional
         + stats.conjunctions * pdf_weights.conjunction
         + stats.modifiers * pdf_weights.modifier
    ELSE stats.numbers * md_weights.number
         + stats.time_words * md_weights.time
         + stats.professional_terms * md_weights.professional
         + stats.conjunctions * md_weights.conjunction
         + stats.modifiers * md_weights.modifier
         + stats.code_snippets * md_weights.code
         + stats.links * md_weights.link
         + bonus

\* density = info_score / total_chars if total_chars > 0 else 0
\* (docana.py line 131, mdana.py line 220); score is in tenths
Density(score, total_chars) ==
    IF total_chars > 0 THEN Rat(score, 10 * total_chars) ELSE RatZero

\* the quality ladder (docana.py lines 134-139, mdana.py lines 223-228);
\* "high", "medium", "low" stand for the three one-ideograph labels
Quality_NonStrict(an, density) ==
    IF ~RatGT(HighThreshold(an), density) THEN "high"
    ELSE IF ~RatGT(MediumThreshold(an), density) THEN "medium"
    ELSE "low"

Quality(an, density) ==
    IF RatGT(density, HighThreshold(an)) THEN "high"
    ELSE IF RatGT(density, MediumThreshold(an)) THEN "medium"
    ELSE "low"

\* the 'sentence' field: sentence[:100] + "..." if len(sentence) > 100 else
\* sentence (docana.py line 142; 150 at mdana.py line 231)
SentenceCut(an) == IF an = "pdf" THEN 100 ELSE 150

Ellipsis == <<".", ".", ".">>

Shown(an, s) ==
    IF Len(s) > SentenceCut(an)
    THEN SubSeq(s, 1, SentenceCut(an)) \o Ellipsis ELSE s

TotalChars_NonWhitespace(s) ==
    Len(SelectSeq(s, LAMBDA c : c \notin Whitespace))

\* len(sentence.replace(' ', '')): docana.py line 106, mdana.py line 182
TotalChars(s) == Len(SelectSeq(s, LAMBDA c : c # SP))

\* the dict returned at docana.py lines 141-148, mdana.py lines 230-238
SentenceRecord(an, s, ctx, total_chars, stats, info_score, density) ==
    IF an = "pdf"
    THEN [sentence |-> Shown(an, s), density |-> density,
          quality |-> Quality(an, density),
          total_chars |-> total_chars, info_score |-> info_score,
          numbers |-> stats.numbers, time_words |-> stats.time_words,
          professional_terms |-> stats.professional_terms,
          conjunctions |-> stats.conjunctions,
          modifiers |-> stats.modifiers, entities |-> stats.entities]
    ELSE [sentence |-> Shown(an, s), density |-> density,
          quality |-> Quality(an, density),
          total_chars |-> total_chars, info_score |-> info_score,
          context |-> IF ctx = NoneRec THEN EmptyDict ELSE ctx,
          numbers |-> stats.numbers, time_words |-> stats.time_words,
          professional_terms |-> stats.professional_terms,
          conjunctions |-> stats.conjunctions,
          modifiers |-> stats.modifiers, entities |-> stats.entities,
          code_snippets |-> stats.code_snippets, links |-> stats.links]

\* docana.py lines 121-139, mdana.py lines 199-228: score, density, tier
ScoreSentence(an, s, ctx, total_chars, stats, info_score) ==
    SentenceRecord(an, s, ctx, total_chars, stats, info_score,
                   Density(info_score, total_chars))

\* docana.py lines 111-128, mdana.py lines 187-217
CountAndScore(an, s, ctx, total_chars, stats) ==
    ScoreSentence(an, s, ctx, total_chars, stats,
                  InfoScore(an, stats, ContextBonus(an, ctx)))

AnalyzeSentence_NoEarlyReturn(an, s, ctx) ==
    CountAndScore(an, s, ctx, TotalChars(s), ExtractStats(an, s))

\* docana.py lines 101-109, mdana.py lines 177-185: the two early returns
AnalyzeSentence(an, s, ctx) ==
    IF Strip(s) = <<>> THEN NoneRec
    ELSE IF TotalChars(s) = 0 THEN NoneRec
    ELSE CountAndScore(an, s, ctx, TotalChars(s), ExtractStats(an, s))

(***************************************************************************)
(* Specification SpecSentence: analyze_sentence called once on a sentence  *)
(* made of at most MaxTokens pieces, or on the example sentence.           *)
(***************************************************************************)
W_15      == <<"1", "5">>
W_density == <<"d", "e", "n", "s", "i", "t", "y">>
W_characterization ==
    <<"c", "h", "a", "r", "a", "c", "t", "e", "r", "i", "z", "a", "t", "i",
      "o", "n">>
W_code    == <<BT, "x", BT>>                         \* `x`
W_link    == <<"[", "a", "]", "(", "b", ")">>        \* [a](b)

SentencePieces ==
    {W_today, W_algo, W_so, W_very, W_15, W_growth, W_de, W_density,
     W_characterization, W_code, W_link}

\* the end-to-end example of the specification (15% sales growth today)
ExampleSentence ==
    W_today \o W_de \o W_sales \o W_growth \o W_le \o W_15
        \o <<"%", FwPeriod>>

\* sentences with spaces, and sentences of whitespace only
SpacedSentences ==
    {<<SP>>, <<SP, SP>>, <<TAB>>,
     W_growth \o <<SP>> \o W_algo,
     <<SP>> \o W_15 \o <<SP, SP>> \o W_de \o <<SP>>}

SentenceInputs ==
    {Flatten(ps) : ps \in SeqsUpTo(SentencePieces, MaxTokens)}
        \cup {ExampleSentence} \cup SpacedSentences

\* the dicts get_sentence_context can return (mdana.py lines 325-348), and
\* None, the default of the parameter
Context(h, lv, l, b) ==
    [is_heading |-> h, heading_level |-> lv, is_list_item |-> l,
     is_blockquote |-> b]

ContextInputs ==
    {NoneRec, Context(TRUE, 6, FALSE, FALSE)} \cup
    {Context(h, IF h THEN 1 ELSE 0, l, b) :
        h \in BOOLEAN, l \in BOOLEAN, b \in BOOLEAN}

SentInit ==
    /\ analyzer \in {"pdf", "md"}
    /\ sentence \in SentenceInputs
    /\ context \in IF analyzer = "pdf" THEN {NoneRec} ELSE ContextInputs
    /\ sent_result = NoneRec
    /\ pc = "call"
    /\ content = <<>> /\ i = 0 /\ in_quotes = FALSE
    /\ current_quote_start = None /\ result = <<>>
    /\ processed_content = <<>>
    /\ PDF_AVAILABLE = TRUE /\ files = <<>> /\ idx = 0
    /\ results = <<>> /\ failed_files = <<>> /\ report = NoneRec

PdfAnalyzeSentence ==
    /\ pc = "call" /\ analyzer = "pdf"
    /\ sent_result' = AnalyzeSentence("pdf", sentence, NoneRec)
    /\ pc' = "returned"
    /\ UNCHANGED <<analyzer, sentence, context>>
    /\ UNCHANGED segVars
    /\ UNCHANGED batchVars

MdAnalyzeSentence ==
    /\ pc = "call" /\ analyzer = "md"
    /\ sent_result' = AnalyzeSentence("md", sentence, context)
    /\ pc' = "returned"
    /\ UNCHANGED <<analyzer, sentence, context>>
    /\ UNCHANGED segVars
    /\ UNCHANGED batchVars

SentNext == PdfAnalyzeSentence \/ MdAnalyzeSentence

SpecSentence == SentInit /\ [][SentNext]_vars

Scored == pc = "returned" /\ sent_result # NoneRec

(***************************************************************************)
(* C2: for every scored segment, info_score is the weighted sum of its     *)
(* feature counts, 3.0 numbers + 2.5 time_words + 2.0 professional_terms   *)
(* + 1.0 conjunctions - 0.5 modifiers, plus, in the markdown analyzer,     *)
(* 2.5 code_snippets + 1.5 links + the context bonus; the entities count   *)
(* contributes nothing; density is info_score / char_count.                *)
(***************************************************************************)
C2_ClaimedBonus ==
    IF analyzer = "pdf" \/ context = NoneRec THEN 0
    ELSE (IF context.is_heading THEN 18 ELSE 0)
         + (IF context.is_list_item THEN 12 ELSE 0)

C2_InfoScoreFormula ==
    Scored =>
        LET r == sent_result
            base == 30 * r.numbers + 25 * r.time_words
                    + 20 * r.professional_terms + 10 * r.conjunctions
                    - 5 * r.modifiers
        IN  /\ r.info_score =
                 IF analyzer = "pdf" THEN base
                 ELSE base + 25 * r.code_snippets + 15 * r.links
                      + C2_ClaimedBonus
            /\ r.total_chars > 0
            /\ r.density.d > 0
            /\ r.density.n * 10 * r.total_chars = r.info_score * r.density.d

\* a markdown heading segment with entities, a link and a number was scored
C2_Witness ==
    /\ Scored /\ analyzer = "md" /\ context # NoneRec
    /\ context.is_heading
    /\ sent_result.entities > 0 /\ sent_result.links > 0
    /\ sent_result.numbers > 0

(***************************************************************************)
(* C3: every scored segment has exactly one tier: high iff density > the   *)
(* high threshold, medium iff medium threshold < density <= high           *)
(* threshold, low otherwise; a density equal to a threshold is in the      *)
(* lower tier.  Thresholds: 0.15 / 0.08 (pdf), 0.12 / 0.06 (markdown).     *)
(***************************************************************************)
C3_High   == IF analyzer = "pdf" THEN 15 ELSE 12    \* hundredths
C3_Medium == IF analyzer = "pdf" THEN 8 ELSE 6      \* hundredths

C3_QualityTier ==
    Scored =>
        LET r == sent_result
            aboveHigh   == r.density.n * 100 > C3_High * r.density.d
            aboveMedium == r.density.n * 100 > C3_Medium * r.density.d
        IN  /\ r.quality \in {"high", "medium", "low"}
            /\ r.quality = "high" <=> aboveHigh
            /\ r.quality = "medium" <=> (aboveMedium /\ ~aboveHigh)
            /\ r.quality = "low" <=> ~aboveMedium

\* a segment whose density is exactly the high threshold was scored medium
C3_Witness ==
    /\ Scored
    /\ sent_result.density.n * 100 = C3_High * sent_result.density.d
    /\ sent_result.quality = "medium"

(***************************************************************************)
(* C8: one more professional term, with char_count, the other feature      *)
(* counts and the context unchanged, raises info_score by exactly 2.0 and  *)
(* strictly raises density.  Checked on the counts of every scored         *)
(* segment, and on every pair of sentences that differ by the word         *)
(* zeng-zhang (growth) replaced by the term suan-fa (algorithm).           *)
(***************************************************************************)
C8_Replaced(p) ==
    SubSeq(sentence, 1, p - 1) \o W_algo
        \o SubSeq(sentence, p + Len(W_growth), Len(sentence))

C8_SameButOneMoreTerm(r, r2) ==
    /\ r2 # NoneRec
    /\ r2.total_chars = r.total_chars
    /\ r2.professional_terms = r.professional_terms + 1
    /\ r2.numbers = r.numbers /\ r2.time_words = r.time_words
    /\ r2.conjunctions = r.conjunctions /\ r2.modifiers = r.modifiers
    /\ r2.entities = r.entities
    /\ analyzer = "md" =>
          /\ r2.code_snippets = r.code_snippets /\ r2.links = r.links
          /\ r2.context = r.context

C8_Monotonic ==
    Scored =>
        LET r  == sent_result
            up == [r EXCEPT !.professional_terms = @ + 1]
            s2 == InfoScore(analyzer, up, ContextBonus(analyzer, context))
        IN  /\ s2 = r.info_score + 20
            /\ RatGT(Density(s2, r.total_chars), r.density)
            /\ \A p \in 1..(Len(sentence) - 1) :
                  LET r2 == AnalyzeSentence(analyzer, C8_Replaced(p), context)
                  IN  (/\ SubSeq(sentence, p, p + 1) = W_growth
                       /\ C8_SameButOneMoreTerm(r, r2))
                      => /\ r2.info_score = r.info_score + 20
                         /\ RatGT(r2.density, r.density)

\* a scored sentence with a modifier in which growth can be replaced by
\* algorithm, giving a sentence with one more professional term
C8_Witness ==
    /\ Scored /\ sent_result.modifiers > 0
    /\ \E p \in 1..(Len(sentence) - 1) :
          /\ SubSeq(sentence, p, p + 1) = W_growth
          /\ C8_SameButOneMoreTerm(sent_result,
                 AnalyzeSentence(analyzer, C8_Replaced(p), context))

(***************************************************************************)
(* C9: a segment whose feature counts are all 0 and whose context bonus    *)
(* is 0 has info_score 0 and density 0 and is classified low, in both      *)
(* analyzers.                                                              *)
(***************************************************************************)
C9_NoFeatures ==
    LET r == sent_result
    IN  /\ r.numbers = 0 /\ r.time_words = 0 /\ r.professional_terms = 0
        /\ r.conjunctions = 0 /\ r.modifiers = 0 /\ r.entities = 0
        /\ analyzer = "md" =>
              /\ r.code_snippets = 0 /\ r.links = 0
              /\ (context = NoneRec
                    \/ (~context.is_heading /\ ~context.is_list_item))

C9_ZeroFeatureDensity ==
    (Scored /\ C9_NoFeatures) =>
        /\ sent_result.info_score = 0
        /\ sent_result.density.n = 0
        /\ sent_result.quality = "low"

\* a featureless segment was scored by the markdown analyzer with a
\* context dict that carries no bonus
C9_Witness ==
    /\ Scored /\ C9_NoFeatures /\ analyzer = "md"
    /\ context # NoneRec /\ context.is_blockquote

(***************************************************************************)
(* C10: the plain-text analyzer scores the example sentence (today's       *)
(* sales grew 15%, 13 characters) with numbers = 1, time_words = 1 (the    *)
(* token jin-tian), the other weighted counts 0, info_score 5.5,           *)
(* char_count 13 (its non-space characters), density 5.5 / 13, and the     *)
(* tier the 0.15 / 0.08 thresholds give that density (high).               *)
(***************************************************************************)
C10_EndToEnd ==
    (pc = "returned" /\ analyzer = "pdf" /\ sentence = ExampleSentence) =>
        LET r == sent_result
        IN  /\ r # NoneRec
            /\ r.numbers = 1 /\ r.time_words = 1
            /\ r.professional_terms = 0 /\ r.conjunctions = 0
            /\ r.modifiers = 0
            /\ r.info_score = 55
            /\ r.total_chars = Cardinality({k \in DOMAIN ExampleSentence :
                                              ExampleSentence[k] # SP})
            /\ r.total_chars = 13
            /\ r.density.n * 130 = 55 * r.density.d
            /\ r.quality = "high"
            /\ 55 * 100 > 15 * 130

\* the example sentence has been scored by the plain-text analyzer
C10_Witness ==
    /\ pc = "returned" /\ analyzer = "pdf" /\ sentence = ExampleSentence
    /\ sent_result # NoneRec /\ W_today \in Range(lcut(sentence))

(***************************************************************************)
(* Python values the batch needs.                                          *)
(***************************************************************************)
\* None where a text is expected
NoText == <<None>>

\* truth value of an 'error' cell: None and '' are false
Truthy_ErrorIgnored(error) == FALSE

Truthy(error) == error # None /\ error # ""

\* "not text" of a text cell
IsEmptyText(text) == text = NoText \/ text = <<>>

\* the exception a division by zero raises
ZeroDivisionError == [raised |-> "ZeroDivisionError"]

Min(a, b) == IF a < b THEN a ELSE b

\* seq[:n]
Take(seq, n) == SubSeq(seq, 1, Min(n, Len(seq)))

RECURSIVE SumSeq(_)
SumSeq(xs) == IF xs = <<>> THEN 0 ELSE Head(xs) + SumSeq(Tail(xs))

RECURSIVE SumRat(_)
SumRat(xs) == IF xs = <<>> THEN RatZero ELSE RatAdd(Head(xs), SumRat(Tail(xs)))

(***************************************************************************)
(* extract_text_from_pdf and clean_text  (docana.py lines 60-97)           *)
(***************************************************************************)
\* the error texts of the source, in English: docana.py lines 63 and 83;
\* the text of an exception that open or read raises in
\* parse_markdown_file (mdana.py line 102); docana.py lines 155, 169, 186
\* and mdana.py lines 245, 266, 286
ErrorText ==
    [no_pdf_library |-> "PDF library not installed",
     pdf_read |-> "PDF read failed: e2",
     md_read |-> "[Errno 13] Permission denied",
     empty_text |-> "text is empty",
     no_sentences |-> "no valid sentence found",
     analysis_failed |-> "sentence analysis failed"]

\* A pdf file of the folder is what the two PDF libraries make of it: the
\* page texts they deliver, joined (text), and whether both of them raised
\* (raises).  The function returns the pair (text, error).
ExtractTextFromPdf(file, available) ==
    IF ~available THEN [text |-> NoText, error |-> ErrorText.no_pdf_library]
    ELSE [text |-> Strip(file.text),
          error |-> IF file.raises THEN ErrorText.pdf_read ELSE None]

\* re.sub(r'\s+', ' ', text)
RECURSIVE CollapseWhitespace(_)
CollapseWhitespace(s) ==
    LET hits == {k \in 1..Len(s) : s[k] \in Whitespace}
    IN  IF hits = {} THEN s
        ELSE LET k == CHOOSE h \in hits : \A m \in hits : h <= m
                 r == Drop(s, k - 1)
             IN  SubSeq(s, 1, k - 1) \o <<SP>>
                     \o CollapseWhitespace(Drop(r, SpanOf(r, Whitespace)))

\* the punctuation the character class of line 95 lists: the full-width
\* marks, the two ASCII quotes, the full-width brackets, the ASCII marks
KeptPunctuation ==
    {FwPeriod, FwExclaim, FwQuestion, "uFF0C", "u3001", "uFF1B", "uFF1A",
     DQ, SQ, "uFF08", "uFF09", "u3010", "u3011", "u300A", "u300B",
     ".", "!", "?", ",", ";", ":", "(", ")", "[", "]"}

\* a character of the class [一-鿿\w\s...] of line 95
IsKeptChar(c) ==
    \/ c \in Ideographs
    \/ c \in AsciiLetters \cup Digits \cup {"_"}
    \/ c \in Whitespace
    \/ c \in KeptPunctuation

\* re.sub(r'[^...]+', ' ', text): a run of other characters becomes a space
RECURSIVE ReplaceOtherChars(_)
ReplaceOtherChars(s) ==
    LET hits == {k \in 1..Len(s) : ~IsKeptChar(s[k])}
    IN  IF hits = {} THEN s
        ELSE LET k == CHOOSE h \in hits : \A m \in hits : h <= m
                 r == Drop(s, k - 1)
             IN  SubSeq(s, 1, k - 1) \o <<SP>>
                     \o ReplaceOtherChars(
                            Drop(r, SpanOf(r, {c \in Range(r) :
                                                  ~IsKeptChar(c)})))

\* clean_text, lines 87-97
clean_text(text) ==
    IF IsEmptyText(text) THEN <<>>
    ELSE Strip(ReplaceOtherChars(CollapseWhitespace(text)))

(***************************************************************************)
(* analyze_text  (docana.py lines 150-221) and the parts it shares with    *)
(* analyze_markdown_content  (mdana.py lines 240-321)                      *)
(***************************************************************************)
\* the characters of the class [。！？\.\!\?]
SentenceEnders == {FwPeriod, FwExclaim, FwQuestion, ".", "!", "?"}

\* re.split(r'[。！？\.\!\?]+', text); cur is the piece being read
RECURSIVE SplitFrom(_, _)
SplitFrom(s, cur) ==
    LET hits == {k \in 1..Len(s) : s[k] \in SentenceEnders}
    IN  IF hits = {} THEN <<cur \o s>>
        ELSE LET k == CHOOSE h \in hits : \A m \in hits : h <= m
                 r == Drop(s, k - 1)
             IN  <<cur \o SubSeq(s, 1, k - 1)>>
                     \o SplitFrom(Drop(r, SpanOf(r, SentenceEnders)), <<>>)

SplitSentences(text) == SplitFrom(text, <<>>)

\* the length a sentence must exceed: 5 at docana.py line 164, 3 at
\* mdana.py line 261
MinSentenceLen(an) == IF an = "pdf" THEN 5 ELSE 3

KeptSentences_AtLeast(an, pieces) ==
    SelectSeq([k \in DOMAIN pieces |-> Strip(pieces[k])],
              LAMBDA s : s # <<>> /\ Len(s) >= MinSentenceLen(an))

\* [s.strip() for s in sentences if s.strip() and len(s.strip()) > 5]
KeptSentences(an, pieces) ==
    SelectSeq([k \in DOMAIN pieces |-> Strip(pieces[k])],
              LAMBDA s : s # <<>> /\ Len(s) > MinSentenceLen(an))

ErrorRecord_CountsOne(an, filename, error, markdown_stats) ==
    IF an = "pdf"
    THEN [filename |-> filename, error |-> error, total_sentences |-> 1,
          average_density |-> RatZero, high_quality_ratio |-> RatZero,
          sentences |-> <<>>]
    ELSE [filename |-> filename, error |-> error, total_sentences |-> 1,
          average_density |-> RatZero, high_quality_ratio |-> RatZero,
          markdown_stats |-> markdown_stats, sentences |-> <<>>]

\* the dicts returned at docana.py lines 153-160, 167-174, 184-191 and at
\* mdana.py lines 243-251, 264-272, 284-292
ErrorRecord(an, filename, error, markdown_stats) ==
    IF an = "pdf"
    THEN [filename |-> filename, error |-> error, total_sentences |-> 0,
          average_density |-> RatZero, high_quality_ratio |-> RatZero,
          sentences |-> <<>>]
    ELSE [filename |-> filename, error |-> error, total_sentences |-> 0,
          average_density |-> RatZero, high_quality_ratio |-> RatZero,
          markdown_stats |-> markdown_stats, sentences |-> <<>>]

\* len([r for r in sentence_results if r['quality'] == q])
CountQuality(rs, q) == Cardinality({k \in DOMAIN rs : rs[k].quality = q})

\* 'quality_distribution': docana.py lines 210-214, mdana.py lines 306-310
QualityDistribution_MediumIsHigh(rs) ==
    [high   |-> CountQuality(rs, "high"),
     medium |-> CountQuality(rs, "high"),
     low    |-> CountQuality(rs, "low")]

QualityDistribution(rs) ==
    [high   |-> CountQuality(rs, "high"),
     medium |-> CountQuality(rs, "medium"),
     low    |-> CountQuality(rs, "low")]

\* high_quality_count: docana.py line 196, mdana.py line 297
HighQualityCount_NotLow(rs) ==
    Cardinality({k \in DOMAIN rs : rs[k].quality # "low"})

HighQualityCount(rs) == CountQuality(rs, "high")

\* how many sentence dicts a record keeps: [:10] at docana.py line 220,
\* [:15] at mdana.py line 320
SentencesKept(an) == IF an = "pdf" THEN 10 ELSE 15

\* the dict returned at docana.py lines 204-221 and mdana.py lines 300-321;
\* n is len(sentence_results), the divisor of lines 195, 197, 218
\* (mdana.py 296, 298, 318)
DocumentRecord(an, filename, rs, n, total_chars, markdown_stats) ==
    IF n = 0 THEN ZeroDivisionError
    ELSE IF an = "pdf"
    THEN [filename |-> filename,
          total_sentences |-> Len(rs),
          total_chars |-> total_chars,
          average_density |->
              RatDivInt(SumRat([k \in DOMAIN rs |-> rs[k].density]), n),
          high_quality_ratio |-> Rat(HighQualityCount(rs), n),
          quality_distribution |-> QualityDistribution(rs),
          content_stats |->
              [numbers_count |-> SumSeq([k \in DOMAIN rs |-> rs[k].numbers]),
               time_words_count |->
                   SumSeq([k \in DOMAIN rs |-> rs[k].time_words]),
               avg_sentence_length |-> Rat(total_chars, n)],
          sentences |-> Take(rs, SentencesKept(an))]
    ELSE [filename |-> filename,
          total_sentences |-> Len(rs),
          total_chars |-> total_chars,
          average_density |->
              RatDivInt(SumRat([k \in DOMAIN rs |-> rs[k].density]), n),
          high_quality_ratio |-> Rat(HighQualityCount(rs), n),
          quality_distribution |-> QualityDistribution(rs),
          markdown_stats |-> markdown_stats,
          content_stats |->
              [numbers_count |-> SumSeq([k \in DOMAIN rs |-> rs[k].numbers]),
               time_words_count |->
                   SumSeq([k \in DOMAIN rs |-> rs[k].time_words]),
               professional_terms_count |->
                   SumSeq([k \in DOMAIN rs |-> rs[k].professional_terms]),
               code_snippets_count |->
                   SumSeq([k \in DOMAIN rs |-> rs[k].code_snippets]),
               links_count |-> SumSeq([k \in DOMAIN rs |-> rs[k].links]),
               avg_sentence_length |-> Rat(total_chars, n)],
          sentences |-> Take(rs, SentencesKept(an))]

Aggregate_OverSample(an, filename, rs, markdown_stats) ==
    IF rs = <<>>
    THEN ErrorRecord(an, filename, ErrorText.analysis_failed, markdown_stats)
    ELSE DocumentRecord(an, filename, Take(rs, SentencesKept(an)),
                        Len(Take(rs, SentencesKept(an))),
                        SumSeq([k \in DOMAIN Take(rs, SentencesKept(an)) |->
                                   rs[k].total_chars]),
                        markdown_stats)

\* docana.py lines 183-200, mdana.py lines 283-298: the guard on an empty
\* sentence_results, then the aggregation
Aggregate(an, filename, rs, markdown_stats) ==
    IF rs = <<>>
    THEN ErrorRecord(an, filename, ErrorText.analysis_failed, markdown_stats)
    ELSE DocumentRecord(an, filename, rs, Len(rs),
                        SumSeq([k \in DOMAIN rs |-> rs[k].total_chars]),
                        markdown_stats)

\* docana.py lines 176-181: the loop over the sentences
PdfSentenceResults(sentences) ==
    SelectSeq([k \in DOMAIN sentences |->
                  AnalyzeSentence("pdf", sentences[k], NoneRec)],
              LAMBDA r : r # NoneRec)

\* docana.py lines 166-181
PdfAnalyzeSentences(filename, sentences) ==
    IF sentences = <<>>
    THEN ErrorRecord("pdf", filename, ErrorText.no_sentences, EmptyDict)
    ELSE Aggregate("pdf", filename, PdfSentenceResults(sentences), EmptyDict)

\* analyze_text(text, filename)
analyze_text(text, filename) ==
    IF IsEmptyText(text)
    THEN ErrorRecord("pdf", filename, ErrorText.empty_text, EmptyDict)
    ELSE PdfAnalyzeSentences(filename,
                             KeptSentences("pdf", SplitSentences(text)))

(***************************************************************************)
(* parse_markdown_file  (mdana.py lines 80-102)                            *)
(***************************************************************************)
\* index of the first occurrence of t in s, 0 when there is none
FindSub(s, t) ==
    LET hits == {k \in 1..(Len(s) - Len(t) + 1) :
                    SubSeq(s, k, k + Len(t) - 1) = t}
    IN  IF hits = {} THEN 0 ELSE CHOOSE k \in hits : \A m \in hits : k <= m

\* the fence '---' and the fence '```'
Fence(c) == <<c, c, c>>

\* content.split('---', 2) of a content that starts with '---': the first
\* part is empty, q is where the second '---' starts in what follows
SplitFrontMatter(rest, q) ==
    IF q = 0 THEN <<<<>>, rest>>
    ELSE <<<<>>, SubSeq(rest, 1, q - 1), Drop(rest, q + 2)>>

\* lines 91-98: yaml.safe_load is a library call; file.yaml_ok tells whether
\* it accepts parts[1].  The mapping it returns is kept as its source text;
\* it returns None for a blank text, which "or {}" turns into {}.
FrontMatterOf(file, parts) ==
    IF Len(parts) >= 3 /\ file.yaml_ok
    THEN [body_content |-> Strip(parts[3]),
          front_matter |-> IF Strip(parts[2]) = <<>> THEN EmptyDict
                           ELSE [yaml |-> parts[2]]]
    ELSE [body_content |-> file.content, front_matter |-> EmptyDict]

\* A markdown file of the folder is its content, or the text of the
\* exception that open / read raises (file.raises, None when they succeed).
\* The function returns the triple (body_content, front_matter, error).
parse_markdown_file(file) ==
    IF file.raises # None
    THEN [body_content |-> NoText, front_matter |-> EmptyDict,
          error |-> file.raises]
    ELSE IF Len(file.content) >= 3
            /\ SubSeq(file.content, 1, 3) = Fence("-")
    THEN [error |-> None] @@
         FrontMatterOf(file,
             SplitFrontMatter(Drop(file.content, 3),
                              FindSub(Drop(file.content, 3), Fence("-"))))
    ELSE [body_content |-> file.content, front_matter |-> EmptyDict,
          error |-> None]

(***************************************************************************)
(* The regular expressions of md_patterns  (mdana.py lines 65-78) and of   *)
(* clean_markdown_text  (lines 135-172).                                   *)
(***************************************************************************)
\* the part of s up to its first newline
LineOf(s) ==
    LET q == IndexOf(s, NL) IN IF q = 0 THEN s ELSE SubSeq(s, 1, q - 1)

\* index of the last occurrence of c in s, 0 when there is none
LastIndexOf(s, c) ==
    LET hits == {k \in DOMAIN s : s[k] = c}
    IN  IF hits = {} THEN 0 ELSE CHOOSE k \in hits : \A m \in hits : m <= k

\* delimiter and width of 'bold', 'italic', 'strikethrough'
DelimiterOf(kind) ==
    IF kind = "bold" THEN <<"*", "*">>
    ELSE IF kind = "italic" THEN <<"*">>
    ELSE <<"~", "~">>

\* length of the match of d([^c]+)d at the start of s, where d is a run of
\* the character c; 0 when it does not match there
DelimitedMatchLen(s, d) ==
    IF Len(s) < Len(d) \/ SubSeq(s, 1, Len(d)) # d THEN 0
    ELSE LET inner == SpanOf(Drop(s, Len(d)), Range(s) \ {d[1]})
         IN  IF inner >= 1
                /\ Len(s) >= 2 * Len(d) + inner
                /\ SubSeq(s, Len(d) + inner + 1, 2 * Len(d) + inner) = d
             THEN 2 * Len(d) + inner ELSE 0

\* length of the match of r'!\[([^\]]*)\]\([^\)]+\)' at the start of s
ImageMatchLen(s) ==
    IF Len(s) < 2 \/ s[1] # "!" \/ s[2] # "[" THEN 0
    ELSE LET q == IndexOf(Drop(s, 2), "]")      \* s[q + 2] is the first ]
         IN  IF q < 1 \/ q + 3 > Len(s) \/ s[q + 3] # "(" THEN 0
             ELSE LET r == IndexOf(Drop(s, q + 3), ")")
                  IN  IF r < 2 THEN 0 ELSE q + 3 + r

\* length of the match at the start of s of the pattern of md_patterns
\* named kind, one of those that are not bound to a line start; 0 when it
\* does not match there
SpanMatchLen(kind, s) ==
    IF kind = "code_block"               \* ```[\s\S]*?```
    THEN IF Len(s) >= 3 /\ SubSeq(s, 1, 3) = Fence(BT)
            /\ FindSub(Drop(s, 3), Fence(BT)) > 0
         THEN FindSub(Drop(s, 3), Fence(BT)) + 5 ELSE 0
    ELSE IF kind = "inline_code"         \* `[^`]+`
    THEN IF Head(s) = BT /\ IndexOf(Tail(s), BT) >= 2
         THEN IndexOf(Tail(s), BT) + 1 ELSE 0
    ELSE IF kind = "link" THEN LinkMatchLen(s)
    ELSE IF kind = "image" THEN ImageMatchLen(s)
    ELSE IF kind = "table_row"           \* \|.*\|
    THEN IF Head(s) = "|" /\ LastIndexOf(LineOf(s), "|") > 1
         THEN LastIndexOf(LineOf(s), "|") ELSE 0
    ELSE DelimitedMatchLen(s, DelimiterOf(kind))

\* what re.sub puts in the place of a match of length m at the start of s:
\* the group \1 for links and emphasis, nothing for the other patterns
SpanReplacement(kind, s, m) ==
    IF kind = "link" THEN SubSeq(s, 2, IndexOf(s, "]") - 1)
    ELSE IF kind \in {"bold", "italic", "strikethrough"}
    THEN SubSeq(s, Len(DelimiterOf(kind)) + 1, m - Len(DelimiterOf(kind)))
    ELSE <<>>

\* re.sub(md_patterns[kind], replacement, s)
\* the text in front of the first match is copied, the match is replaced,
\* and the search goes on behind it
RECURSIVE SubSpans(_, _)
SubSpans(kind, s) ==
    LET hits == {k \in 1..Len(s) : SpanMatchLen(kind, Drop(s, k - 1)) > 0}
    IN  IF hits = {} THEN s
        ELSE LET k == CHOOSE h \in hits : \A m \in hits : h <= m
                 r == Drop(s, k - 1)
             IN  SubSeq(s, 1, k - 1)
                     \o SpanReplacement(kind, r, SpanMatchLen(kind, r))
                     \o SubSpans(kind, Drop(r, SpanMatchLen(kind, r)))

\* len(re.findall(md_patterns[kind], s))
RECURSIVE CountSpans(_, _)
CountSpans(kind, s) ==
    LET hits == {k \in 1..Len(s) : SpanMatchLen(kind, Drop(s, k - 1)) > 0}
    IN  IF hits = {} THEN 0
        ELSE LET k == CHOOSE h \in hits : \A m \in hits : h <= m
                 r == Drop(s, k - 1)
             IN  1 + CountSpans(kind, Drop(r, SpanMatchLen(kind, r)))

\* The patterns bound to a line start, '^...\s+': length of the part in
\* front of \s+ when s starts a line, 0 when it does not match.  [\s]*
\* takes newlines too, so a list marker may be found lines below the
\* start of the match.
MarkerPrefix(kind, s) ==
    IF kind = "heading"                  \* ^#{1,6}
    THEN IF SpanOf(s, {"#"}) <= 6 THEN SpanOf(s, {"#"}) ELSE 0
    ELSE IF kind = "list_item"           \* ^[\s]*[-*+]
    THEN IF SpanOf(s, Whitespace) < Len(s)
            /\ s[SpanOf(s, Whitespace) + 1] \in {"-", "*", "+"}
         THEN SpanOf(s, Whitespace) + 1 ELSE 0
    ELSE IF kind = "numbered_list"       \* ^[\s]*\d+\.
    THEN LET a == SpanOf(s, Whitespace)
             d == SpanOf(Drop(s, a), Digits)
         IN  IF d >= 1 /\ a + d < Len(s) /\ s[a + d + 1] = "."
             THEN a + d + 1 ELSE 0
    ELSE IF s # <<>> /\ Head(s) = ">" THEN 1 ELSE 0     \* ^>

\* length of the match of '^<marker>\s+' at the line start s
MarkerLen(kind, s) ==
    LET h == MarkerPrefix(kind, s)
    IN  IF h > 0 /\ SpanOf(Drop(s, h), Whitespace) >= 1
        THEN h + SpanOf(Drop(s, h), Whitespace) ELSE 0

\* re.sub(r'^<marker>\s+', '', s, flags=re.MULTILINE); prev is the
\* character in front of s (a newline at the start of the text)
RECURSIVE StripMarkers(_, _, _)
StripMarkers(kind, s, prev) ==
    LET hits == {k \in 1..Len(s) :
                    /\ (IF k = 1 THEN prev ELSE s[k - 1]) = NL
                    /\ MarkerLen(kind, Drop(s, k - 1)) > 0}
    IN  IF hits = {} THEN s
        ELSE LET k == CHOOSE h \in hits : \A m \in hits : h <= m
                 r == Drop(s, k - 1)
             IN  SubSeq(s, 1, k - 1)
                     \o StripMarkers(kind, Drop(r, MarkerLen(kind, r)),
                                     r[MarkerLen(kind, r)])

\* '^<marker>\s+(.+)$': how many whitespace characters \s+ takes behind the
\* h characters of the marker, the most that leave a character other than
\* a newline for (.+); 0 when the pattern does not match
TakenWhitespace(s, h) ==
    LET ok == {k \in 1..SpanOf(Drop(s, h), Whitespace) :
                  h + k + 1 <= Len(s) /\ s[h + k + 1] # NL}
    IN  IF ok = {} THEN 0 ELSE CHOOSE k \in ok : \A m \in ok : m <= k

\* the match of '^<marker>\s+(.+)$' at the line start s: its length, the
\* marker, the text of the group; length 0 when it does not match
MarkedLine(kind, s) ==
    LET h == MarkerPrefix(kind, s)
        k == IF h > 0 THEN TakenWhitespace(s, h) ELSE 0
    IN  IF k = 0 THEN [len |-> 0, level |-> 0, text |-> <<>>]
        ELSE [len |-> h + k + Len(LineOf(Drop(s, h + k))),
              level |-> h,
              text |-> LineOf(Drop(s, h + k))]

\* re.findall(r'^(<marker>)\s+(.+)$', s, re.MULTILINE): the matches, in
\* order
RECURSIVE FindMarkedLines(_, _, _)
FindMarkedLines(kind, s, prev) ==
    LET hits == {k \in 1..Len(s) :
                    /\ (IF k = 1 THEN prev ELSE s[k - 1]) = NL
                    /\ MarkedLine(kind, Drop(s, k - 1)).len > 0}
    IN  IF hits = {} THEN <<>>
        ELSE LET k == CHOOSE h \in hits : \A m \in hits : h <= m
                 r == Drop(s, k - 1)
             IN  <<MarkedLine(kind, r)>>
                     \o FindMarkedLines(kind, Drop(r, MarkedLine(kind, r).len),
                                        r[MarkedLine(kind, r).len])

\* re.sub(r'^[-\s|:]+$', '', s, flags=re.MULTILINE): at a line start, the
\* longest run of these characters that ends at a line end
RuleLen(s) ==
    LET ok == {k \in 1..SpanOf(s, Whitespace \cup {"-", "|", ":"}) :
                  k = Len(s) \/ s[k + 1] = NL}
    IN  IF ok = {} THEN 0 ELSE CHOOSE k \in ok : \A m \in ok : m <= k

RECURSIVE StripRules(_, _)
StripRules(s, prev) ==
    LET hits == {k \in 1..Len(s) :
                    /\ (IF k = 1 THEN prev ELSE s[k - 1]) = NL
                    /\ RuleLen(Drop(s, k - 1)) > 0}
    IN  IF hits = {} THEN s
        ELSE LET k == CHOOSE h \in hits : \A m \in hits : h <= m
                 r == Drop(s, k - 1)
             IN  SubSeq(s, 1, k - 1)
                     \o StripRules(Drop(r, RuleLen(r)), r[RuleLen(r)])

\* re.sub(r'\n\s*\n', '\n\n', s): a newline, whitespace, a newline
BlankRunLen(s) ==
    IF s = <<>> \/ Head(s) # NL THEN 0
    ELSE LET w == SpanOf(Tail(s), Whitespace)
             q == LastIndexOf(SubSeq(Tail(s), 1, w), NL)
         IN  IF q = 0 THEN 0 ELSE q + 1

RECURSIVE CollapseBlankLines(_)
CollapseBlankLines(s) ==
    LET hits == {k \in 1..Len(s) : BlankRunLen(Drop(s, k - 1)) > 0}
    IN  IF hits = {} THEN s
        ELSE LET k == CHOOSE h \in hits : \A m \in hits : h <= m
                 r == Drop(s, k - 1)
             IN  SubSeq(s, 1, k - 1) \o <<NL, NL>>
                     \o CollapseBlankLines(Drop(r, BlankRunLen(r)))

\* re.sub(r'[ \t]+', ' ', s)
RECURSIVE CollapseBlanks(_)
CollapseBlanks(s) ==
    LET hits == {k \in 1..Len(s) : s[k] \in {SP, TAB}}
    IN  IF hits = {} THEN s
        ELSE LET k == CHOOSE h \in hits : \A m \in hits : h <= m
                 r == Drop(s, k - 1)
             IN  SubSeq(s, 1, k - 1) \o <<SP>>
                     \o CollapseBlanks(Drop(r, SpanOf(r, {SP, TAB})))

\* lines 137-147: code blocks, inline code, links, images
RemoveCodeAndLinks(body) ==
    SubSpans("image", SubSpans("link",
        SubSpans("inline_code", SubSpans("code_block", body))))

\* lines 150-157: heading, list and blockquote markers
RemoveMarkers(s) ==
    StripMarkers("blockquote",
        StripMarkers("numbered_list",
            StripMarkers("list_item",
                StripMarkers("heading", s, NL), NL), NL), NL)

\* lines 160-162
RemoveEmphasis(s) ==
    SubSpans("strikethrough", SubSpans("italic", SubSpans("bold", s)))

\* lines 165-166
RemoveTables(s) == StripRules(SubSpans("table_row", s), NL)

\* lines 169-172
CollapseSpace(s) == Strip(CollapseBlanks(CollapseBlankLines(s)))

\* clean_markdown_text, lines 135-172
clean_markdown_text(body) ==
    CollapseSpace(RemoveTables(RemoveEmphasis(RemoveMarkers(
        RemoveCodeAndLinks(body)))))

(***************************************************************************)
(* extract_markdown_elements  (mdana.py lines 104-133) and                 *)
(* calculate_markdown_stats  (lines 350-388)                               *)
(***************************************************************************)
\* the elements dict; the lists other than 'headings' are used through
\* their lengths only, and the model keeps the lengths
extract_markdown_elements(body) ==
    [headings |-> FindMarkedLines("heading", body, NL),
     code_blocks |-> CountSpans("code_block", body),
     inline_codes |-> CountSpans("inline_code", body),
     links |-> CountSpans("link", body),
     images |-> CountSpans("image", body),
     list_items |-> Len(FindMarkedLines("list_item", body, NL))
                    + Len(FindMarkedLines("numbered_list", body, NL)),
     blockquotes |-> Len(FindMarkedLines("blockquote", body, NL)),
     tables |-> CountSpans("table_row", body),
     emphasis |-> CountSpans("bold", body) + CountSpans("italic", body)]

\* content.split('\n')
RECURSIVE SplitLines(_)
SplitLines(s) ==
    IF IndexOf(s, NL) = 0 THEN <<s>>
    ELSE <<LineOf(s)>> \o SplitLines(Drop(s, IndexOf(s, NL)))

\* lines 371-377: the level counted for one heading text, -1 when no line
\* holds it: the '#' in front of the first line that contains the text
\* and, stripped, starts with '#'
HeadingLevelOf(text, lines) ==
    LET hits == {k \in DOMAIN lines :
                    /\ IsSubstring(text, lines[k])
                    /\ Strip(lines[k]) # <<>>
                    /\ Head(Strip(lines[k])) = "#"}
    IN  IF hits = {} THEN -1
        ELSE SpanOf(lines[CHOOSE k \in hits : \A m \in hits : k <= m], {"#"})

\* stats['heading_levels']: the key 'h<level>' is written <level>
HeadingLevels(levels) ==
    [lv \in {levels[k] : k \in DOMAIN levels} \ {-1} |->
        Cardinality({k \in DOMAIN levels : levels[k] = lv})]

\* lines 379-386
StatsWithRatios(stats) ==
    stats @@
    [structure_ratio |->
         IF stats.content_lines > 0
         THEN Rat(stats.headings_count + stats.list_items_count
                  + stats.tables_count + stats.blockquotes_count,
                  stats.content_lines)
         ELSE RatZero,
     code_density |->
         IF stats.content_lines > 0
         THEN Rat(stats.code_blocks_count + stats.inline_codes_count,
                  stats.content_lines)
         ELSE RatZero]

\* lines 354-368
StatsOfLines(md_elements, lines) ==
    StatsWithRatios(
        [headings_count |-> Len(md_elements.headings),
         heading_levels |->
             HeadingLevels([k \in DOMAIN md_elements.headings |->
                 HeadingLevelOf(md_elements.headings[k].text, lines)]),
         code_blocks_count |-> md_elements.code_blocks,
         inline_codes_count |-> md_elements.inline_codes,
         links_count |-> md_elements.links,
         images_count |-> md_elements.images,
         list_items_count |-> md_elements.list_items,
         blockquotes_count |-> md_elements.blockquotes,
         tables_count |->
             Cardinality({k \in DOMAIN lines :
                 /\ "|" \in Range(lines[k])
                 /\ Strip(lines[k]) # <<>>
                 /\ Head(Strip(lines[k])) = "|"}),
         emphasis_count |-> md_elements.emphasis,
         total_lines |-> Len(lines),
         empty_lines |->
             Cardinality({k \in DOMAIN lines : Strip(lines[k]) = <<>>}),
         content_lines |->
             Cardinality({k \in DOMAIN lines : Strip(lines[k]) # <<>>})])

calculate_markdown_stats(md_elements, body) ==
    StatsOfLines(md_elements, SplitLines(body))

(***************************************************************************)
(* get_sentence_context  (mdana.py lines 323-348)                          *)
(***************************************************************************)
\* how much of the sentence the two searches look for: sentence[:20]
ContextPrefixLen == 20

\* lines 334-338: the first heading whose text contains the sentence
HeadingContaining(sent, headings) ==
    LET hits == {k \in DOMAIN headings :
                    IsSubstring(sent, headings[k].text)}
    IN  IF hits = {} THEN 0 ELSE CHOOSE k \in hits : \A m \in hits : k <= m

\* '.*' + needle behind the first n characters of s: characters other than
\* newline, then the needle
FollowsOnLine(s, n, needle) ==
    \E j \in n..(Len(s) - Len(needle)) :
        /\ \A q \in (n + 1)..j : s[q] # NL
        /\ SubSeq(s, j + 1, j + Len(needle)) = needle

\* re.search(r'^<marker>\s+.*' + re.escape(needle), full_content,
\* re.MULTILINE)
SearchMarked(kind, full_content, needle) ==
    \E p \in 0..(Len(full_content) - 1) :
        /\ p = 0 \/ full_content[p] = NL
        /\ MarkerPrefix(kind, Drop(full_content, p)) > 0
        /\ \E k \in 1..SpanOf(Drop(full_content,
                                   p + MarkerPrefix(kind,
                                                    Drop(full_content, p))),
                              Whitespace) :
               FollowsOnLine(Drop(full_content, p),
                             MarkerPrefix(kind, Drop(full_content, p)) + k,
                             needle)

get_sentence_context(sent, full_content) ==
    LET headings == FindMarkedLines("heading", full_content, NL)
        h == HeadingContaining(sent, headings)
    IN  [is_heading |-> h > 0,
         heading_level |-> IF h > 0 THEN headings[h].level ELSE 0,
         is_list_item |->
             SearchMarked("list_item", full_content,
                          Take(sent, ContextPrefixLen)),
         is_blockquote |->
             SearchMarked("blockquote", full_content,
                          Take(sent, ContextPrefixLen))]

(***************************************************************************)
(* analyze_markdown_content  (mdana.py lines 240-321)                      *)
(***************************************************************************)
\* lines 274-281: the loop over the sentences
MdSentenceResults(sentences, body) ==
    SelectSeq([k \in DOMAIN sentences |->
                  AnalyzeSentence("md", sentences[k],
                      get_sentence_context(sentences[k], body))],
              LAMBDA r : r # NoneRec)

\* lines 263-298
MdAnalyzeSentences(filename, body, sentences, markdown_stats) ==
    IF sentences = <<>>
    THEN ErrorRecord("md", filename, ErrorText.no_sentences, markdown_stats)
    ELSE Aggregate("md", filename, MdSentenceResults(sentences, body),
                   markdown_stats)

analyze_markdown_content(body, filename) ==
    IF IsEmptyText(body)
    THEN ErrorRecord("md", filename, ErrorText.empty_text, EmptyDict)
    ELSE MdAnalyzeSentences(filename, body,
             KeptSentences("md",
                 SplitSentences(clean_markdown_text(body))),
             calculate_markdown_stats(extract_markdown_elements(body),
                                      body))

(***************************************************************************)
(* generate_reports  (docana.py lines 270-284, 416-528; mdana.py lines     *)
(* 444-458, 723-853).  The model keeps the summary of the JSON report and  *)
(* the figures of the text report; the Excel sheet and the charts are      *)
(* drawn from the same results.                                            *)
(***************************************************************************)
\* valid_results = [r for r in results if 'error' not in r]
ValidResults(rs) == SelectSeq(rs, LAMBDA r : "error" \notin DOMAIN r)

\* how many lines the ranking shows: [:10] at docana.py line 478, [:15] at
\* mdana.py line 846
RankingLimit(an) == IF an = "pdf" THEN 10 ELSE 15

\* sorted(valid_results, key=lambda x: x['average_density'], reverse=True)
\* is stable: records of equal density keep their order.  r goes behind
\* every record whose density is not smaller.
RECURSIVE InsertAscending(_, _)
InsertAscending(sorted, r) ==
    IF sorted = <<>> THEN <<r>>
    ELSE IF RatGT(Head(sorted).average_density, r.average_density)
    THEN <<r>> \o sorted
    ELSE <<Head(sorted)>> \o InsertAscending(Tail(sorted), r)

\* an insertion in front of the records of equal density
RECURSIVE InsertByDensity_TiesFirst(_, _)
InsertByDensity_TiesFirst(sorted, r) ==
    IF sorted = <<>> THEN <<r>>
    ELSE IF ~RatGT(Head(sorted).average_density, r.average_density)
    THEN <<r>> \o sorted
    ELSE <<Head(sorted)>> \o InsertByDensity_TiesFirst(Tail(sorted), r)

RECURSIVE InsertByDensity(_, _)
InsertByDensity(sorted, r) ==
    IF sorted = <<>> THEN <<r>>
    ELSE IF RatGT(r.average_density, Head(sorted).average_density)
    THEN <<r>> \o sorted
    ELSE <<Head(sorted)>> \o InsertByDensity(Tail(sorted), r)

RECURSIVE SortedAscending(_)
SortedAscending(rs) ==
    IF rs = <<>> THEN <<>>
    ELSE InsertAscending(SortedAscending(SubSeq(rs, 1, Len(rs) - 1)),
                         rs[Len(rs)])

SortedByDensity_Ascending(rs) == SortedAscending(rs)

RECURSIVE SortedByDensity(_)
SortedByDensity(rs) ==
    IF rs = <<>> THEN <<>>
    ELSE InsertByDensity(SortedByDensity(SubSeq(rs, 1, Len(rs) - 1)),
                         rs[Len(rs)])

\* quality_totals: docana.py lines 492-495, mdana.py lines 862-865
QualityTotals(valid) ==
    [high |-> SumSeq([k \in DOMAIN valid |->
                         valid[k].quality_distribution.high]),
     medium |-> SumSeq([k \in DOMAIN valid |->
                           valid[k].quality_distribution.medium]),
     low |-> SumSeq([k \in DOMAIN valid |->
                        valid[k].quality_distribution.low])]

\* the mean of the segment densities of the whole corpus
PdfOverall_Weighted(valid, n, total_sentences, high_quality_sentences) ==
    [total_sentences |-> total_sentences,
     total_chars |-> SumSeq([k \in DOMAIN valid |-> valid[k].total_chars]),
     avg_density |->
         RatDivInt(SumRat([k \in DOMAIN valid |->
                              Rat(valid[k].average_density.n
                                      * valid[k].total_sentences,
                                  valid[k].average_density.d)]),
                   total_sentences),
     high_quality_sentences |-> high_quality_sentences,
     high_quality_ratio |->
         IF total_sentences > 0
         THEN Rat(high_quality_sentences, total_sentences) ELSE RatZero,
     quality_totals |-> QualityTotals(valid)]

\* docana.py lines 458-463; n is len(valid_results), which line 457 has
\* found positive
PdfOverall(valid, n, total_sentences, high_quality_sentences) ==
    [total_sentences |-> total_sentences,
     total_chars |-> SumSeq([k \in DOMAIN valid |-> valid[k].total_chars]),
     avg_density |->
         RatDivInt(SumRat([k \in DOMAIN valid |->
                              valid[k].average_density]), n),
     high_quality_sentences |-> high_quality_sentences,
     high_quality_ratio |->
         IF total_sentences > 0
         THEN Rat(high_quality_sentences, total_sentences) ELSE RatZero,
     quality_totals |-> QualityTotals(valid)]

\* mdana.py lines 762-791
MdGlobalStats(valid, n, total_sentences, total_high_quality) ==
    [total_sentences |-> total_sentences,
     total_characters |->
         SumSeq([k \in DOMAIN valid |-> valid[k].total_chars]),
     average_density |->
         RatDivInt(SumRat([k \in DOMAIN valid |->
                              valid[k].average_density]), n),
     global_high_quality_ratio |->
         IF total_sentences > 0
         THEN Rat(total_high_quality, total_sentences) ELSE RatZero,
     markdown_elements |->
         [total_headings |->
              SumSeq([k \in DOMAIN valid |->
                         valid[k].markdown_stats.headings_count]),
          total_code_blocks |->
              SumSeq([k \in DOMAIN valid |->
                         valid[k].markdown_stats.code_blocks_count]),
          total_links |->
              SumSeq([k \in DOMAIN valid |->
                         valid[k].markdown_stats.links_count]),
          total_images |->
              SumSeq([k \in DOMAIN valid |->
                         valid[k].markdown_stats.images_count]),
          avg_headings_per_doc |->
              Rat(SumSeq([k \in DOMAIN valid |->
                             valid[k].markdown_stats.headings_count]), n),
          avg_code_blocks_per_doc |->
              Rat(SumSeq([k \in DOMAIN valid |->
                             valid[k].markdown_stats.code_blocks_count]), n)],
     content_analysis |->
         [total_professional_terms |->
              SumSeq([k \in DOMAIN valid |->
                         valid[k].content_stats.professional_terms_count]),
          total_numbers |->
              SumSeq([k \in DOMAIN valid |->
                         valid[k].content_stats.numbers_count]),
          total_time_words |->
              SumSeq([k \in DOMAIN valid |->
                         valid[k].content_stats.time_words_count]),
          avg_sentence_length |->
              RatDivInt(SumRat([k \in DOMAIN valid |->
                  valid[k].content_stats.avg_sentence_length]), n)]]

\* calculate_global_stats, mdana.py lines 756-791
calculate_global_stats(valid) ==
    IF valid = <<>> THEN EmptyDict
    ELSE MdGlobalStats(valid, Len(valid),
             SumSeq([k \in DOMAIN valid |-> valid[k].total_sentences]),
             SumSeq([k \in DOMAIN valid |->
                        valid[k].quality_distribution.high]))

\* the figures under "overall statistics": docana.py lines 457-463,
\* mdana.py lines 797, 817
Overall(an, valid) ==
    IF valid = <<>> THEN EmptyDict
    ELSE IF an = "md" THEN calculate_global_stats(valid)
    ELSE PdfOverall(valid, Len(valid),
             SumSeq([k \in DOMAIN valid |-> valid[k].total_sentences]),
             SumSeq([k \in DOMAIN valid |->
                        valid[k].quality_distribution.high]))

\* generate_summary_report: sorted_results is its local list; ranking
\* holds the records whose lines it writes (no ranking is written when
\* there is no valid record)
SummaryReport(an, valid, sorted_results, n_results, n_failed) ==
    [total_files |-> n_results + n_failed,
     successful |-> Len(valid),
     failed |-> n_failed,
     overall |-> Overall(an, valid),
     sorted_results |-> sorted_results,
     ranking |-> Take(sorted_results, RankingLimit(an))]

\* generate_json_report: report_data['summary'], docana.py lines 421-425,
\* mdana.py lines 728-731
JsonSummary(n_results, n_failed) ==
    [total_files |-> n_results + n_failed,
     successful_files |-> n_results,
     failed_files |-> n_failed]

generate_reports(an, rs, failed) ==
    [json |-> JsonSummary(Len(rs), Len(failed)),
     summary |-> SummaryReport(an, ValidResults(rs),
                               SortedByDensity(ValidResults(rs)),
                               Len(rs), Len(failed))]

(***************************************************************************)
(* Specification SpecBatch: analyze_pdf_folder  (docana.py lines 223-268)  *)
(* and analyze_markdown_folder  (mdana.py lines 390-442) run on a folder   *)
(* of at most MaxFiles files, or on one of the listed folders.  A file is  *)
(* named by its place in the listing.                                      *)
(***************************************************************************)
MaxFiles == 3

RECURSIVE Repeat(_, _)
Repeat(s, n) == IF n = 0 THEN <<>> ELSE s \o Repeat(s, n - 1)

\* sentences of density 0.20, 0.05 and 0.12, and two short ones: one that
\* the pdf filter keeps, one that only the markdown filter keeps
Sample ==
    [d20 |-> W_algo \o W_density \o W_de,
     d05 |-> W_so \o W_characterization \o W_de \o W_de,
     d12 |-> W_15 \o W_characterization \o W_density,
     short |-> W_algo \o <<"a", "b", "c", "d">>,
     brief |-> W_algo \o <<"a", "b">>]

\* A pdf file is the text the libraries deliver and whether they raise.
\* long holds more sentences than a record keeps.
PdfFiles ==
    [unreadable |-> [text |-> Sample.d20 \o <<NL>>, raises |-> TRUE],
     scanned |-> [text |-> <<>>, raises |-> FALSE],
     short |-> [text |-> <<NL, SP>> \o W_today \o <<FwPeriod, NL>>,
                raises |-> FALSE],
     d20 |-> [text |-> Sample.d20 \o <<FwPeriod, NL>>, raises |-> FALSE],
     d05 |-> [text |-> Sample.d05 \o <<FwPeriod, NL>>, raises |-> FALSE],
     d12 |-> [text |-> Sample.d12 \o <<FwPeriod, NL>>, raises |-> FALSE],
     mixed |-> [text |-> ExampleSentence \o <<NL>> \o Sample.d12
                             \o <<"!", TAB>> \o Sample.d05
                             \o <<"?", "?", NL>>,
                raises |-> FALSE],
     long |-> [text |-> Repeat(Sample.short \o <<FwPeriod>>,
                               SentencesKept("pdf") + 1),
               raises |-> FALSE]]

PdfDocuments == {PdfFiles[n] : n \in DOMAIN PdfFiles \ {"long"}}

\* A markdown file is its content, the text of the exception that open or
\* read raises (None when they succeed; the text of a MemoryError is
\* empty), and whether yaml.safe_load accepts its front matter.
MdFiles ==
    [unreadable |-> [content |-> <<>>, raises |-> ErrorText.md_read,
                     yaml_ok |-> TRUE],
     no_message |-> [content |-> <<>>, raises |-> "", yaml_ok |-> TRUE],
     blank |-> [content |-> <<>>, raises |-> None, yaml_ok |-> TRUE],
     heading |->
         [content |-> <<"#", SP>> \o Sample.d20
                          \o <<FwPeriod, NL, NL, "-", SP>> \o W_today
                          \o Sample.d12 \o <<FwPeriod, NL, ">", SP>>
                          \o W_very \o W_very \o W_density
                          \o <<FwPeriod, NL>>,
          raises |-> None, yaml_ok |-> TRUE],
     front_matter |->
         [content |-> <<"-", "-", "-", NL, "t", ":", SP, "1", NL,
                        "-", "-", "-", NL>>
                          \o W_code \o <<SP>> \o W_algo \o W_link
                          \o W_density
                          \o <<FwPeriod, NL, BT, BT, BT, NL, "c", NL,
                                BT, BT, BT, NL>>,
          raises |-> None, yaml_ok |-> TRUE],
     bad_yaml |->
         [content |-> <<"-", "-", "-", NL, ":", NL, "-", "-", "-", NL>>
                          \o Sample.d05 \o <<FwPeriod, NL>>,
          raises |-> None, yaml_ok |-> FALSE],
     table |->
         [content |-> <<"1", ".", SP>> \o Sample.d12
                          \o <<NL, "|", SP, "a", SP, "|", NL,
                                "|", "-", "|", NL, "*", "*">>
                          \o W_very \o <<"*", "*">> \o W_density
                          \o <<"!", NL>>,
          raises |-> None, yaml_ok |-> TRUE],
     long |-> [content |-> Repeat(Sample.brief \o <<FwPeriod>>,
                                  SentencesKept("md") + 1),
               raises |-> None, yaml_ok |-> TRUE],
     numbered |->
         [content |-> <<"1", ".", SP>> \o Sample.d20
                          \o <<FwPeriod, NL>>,
          raises |-> None, yaml_ok |-> TRUE],
     prefixed |->
         [content |-> <<"-", SP>> \o Take(Sample.d12, ContextPrefixLen)
                          \o <<FwPeriod, NL>> \o Sample.d12
                          \o <<FwPeriod, NL>>,
          raises |-> None, yaml_ok |-> TRUE]]

MdDocuments ==
    {MdFiles[n] : n \in DOMAIN MdFiles \ {"long", "numbered", "prefixed"}}

\* a folder of lists: a numbered item that is a sentence; a bulleted item
\* and a paragraph that starts as the bulleted item does
ListFolder == <<MdFiles.numbered, MdFiles.prefixed>>

\* the folders listed beside the enumerated ones: they hold more valid
\* files than the ranking shows, a failing file, and a document with more
\* sentences than a record keeps
LargeFolder(an) ==
    IF an = "pdf"
    THEN Repeat(<<PdfFiles.d20, PdfFiles.d05, PdfFiles.d12,
                  PdfFiles.mixed>>, 3)
             \o <<PdfFiles.unreadable, PdfFiles.long>>
    ELSE Repeat(<<MdFiles.heading, MdFiles.front_matter, MdFiles.bad_yaml,
                  MdFiles.table>>, 4)
             \o <<MdFiles.no_message, MdFiles.long>>

\* the listing of a folder that holds the documents docs
Listing(docs) == [k \in DOMAIN docs |-> [filename |-> k] @@ docs[k]]

BatchInputs(an) ==
    IF an = "pdf"
    THEN {Listing(docs) : docs \in SeqsUpTo(PdfDocuments, MaxFiles)
                                       \cup {LargeFolder(an)}}
    ELSE {Listing(docs) : docs \in SeqsUpTo(MdDocuments, MaxFiles)
                                       \cup {LargeFolder(an), ListFolder}}

BatchInit ==
    /\ analyzer \in {"pdf", "md"}
    /\ PDF_AVAILABLE \in IF analyzer = "pdf" THEN BOOLEAN ELSE {TRUE}
    /\ files \in BatchInputs(analyzer)
    /\ idx = 0
    /\ results = <<>>
    /\ failed_files = <<>>
    /\ report = NoneRec
    /\ pc = "loop"
    /\ content = <<>> /\ i = 0 /\ in_quotes = FALSE
    /\ current_quote_start = None /\ result = <<>>
    /\ processed_content = <<>>
    /\ sentence = <<>> /\ context = NoneRec /\ sent_result = NoneRec

\* what a batch action leaves alone
idleVars ==
    <<content, i, in_quotes, current_quote_start, result,
      processed_content, sentence, context, sent_result, analyzer,
      PDF_AVAILABLE, files>>

\* a record that carries the sentence count of the record before it
StoreResult_Carrying(r) ==
    /\ results' =
           IF r = ZeroDivisionError THEN results
           ELSE IF results = <<>> THEN <<r>>
           ELSE Append(results,
                       [r EXCEPT !.total_sentences =
                           @ + results[Len(results)].total_sentences])
    /\ pc' = IF r = ZeroDivisionError THEN "crashed" ELSE pc

\* results.append(result); an exception raised by the analysis leaves the
\* loop and the function
StoreResult(r) ==
    /\ results' = IF r = ZeroDivisionError THEN results
                  ELSE Append(results, r)
    /\ pc' = IF r = ZeroDivisionError THEN "crashed" ELSE pc

\* docana.py lines 235-237
PdfNoFiles ==
    /\ pc = "loop" /\ analyzer = "pdf" /\ files = <<>>
    /\ pc' = "done"
    /\ UNCHANGED <<idx, results, failed_files, report>>
    /\ UNCHANGED idleVars

\* docana.py lines 244-254: the extraction reports an error
PdfFileFailed ==
    /\ pc = "loop" /\ analyzer = "pdf" /\ idx < Len(files)
    /\ Truthy(ExtractTextFromPdf(files[idx + 1], PDF_AVAILABLE).error)
    /\ failed_files' =
           Append(failed_files,
                  [filename |-> files[idx + 1].filename,
                   error |-> ExtractTextFromPdf(files[idx + 1],
                                                PDF_AVAILABLE).error])
    /\ idx' = idx + 1
    /\ UNCHANGED <<pc, results, report>>
    /\ UNCHANGED idleVars

\* docana.py lines 244-261: the file is cleaned and analyzed
PdfFileAnalyzed ==
    /\ pc = "loop" /\ analyzer = "pdf" /\ idx < Len(files)
    /\ ~Truthy(ExtractTextFromPdf(files[idx + 1], PDF_AVAILABLE).error)
    /\ StoreResult(
           analyze_text(
               clean_text(ExtractTextFromPdf(files[idx + 1],
                                             PDF_AVAILABLE).text),
               files[idx + 1].filename))
    /\ idx' = idx + 1
    /\ UNCHANGED <<failed_files, report>>
    /\ UNCHANGED idleVars

\* the report written while files are still waiting
PdfGenerateReports_Early ==
    /\ pc = "loop" /\ analyzer = "pdf"
    /\ files # <<>> /\ idx <= Len(files)
    /\ report' = generate_reports("pdf", results, failed_files)
    /\ pc' = "done"
    /\ UNCHANGED <<idx, results, failed_files>>
    /\ UNCHANGED idleVars

\* docana.py line 264
PdfGenerateReports ==
    /\ pc = "loop" /\ analyzer = "pdf"
    /\ files # <<>> /\ idx = Len(files)
    /\ report' = generate_reports("pdf", results, failed_files)
    /\ pc' = "done"
    /\ UNCHANGED <<idx, results, failed_files>>
    /\ UNCHANGED idleVars

\* mdana.py lines 408-410
MdNoFiles ==
    /\ pc = "loop" /\ analyzer = "md" /\ files = <<>>
    /\ pc' = "done"
    /\ UNCHANGED <<idx, results, failed_files, report>>
    /\ UNCHANGED idleVars

\* mdana.py lines 417-426: the parse reports an error
MdFileFailed ==
    /\ pc = "loop" /\ analyzer = "md" /\ idx < Len(files)
    /\ Truthy(parse_markdown_file(files[idx + 1]).error)
    /\ failed_files' =
           Append(failed_files,
                  [filename |-> files[idx + 1].filename,
                   error |-> parse_markdown_file(files[idx + 1]).error])
    /\ idx' = idx + 1
    /\ UNCHANGED <<pc, results, report>>
    /\ UNCHANGED idleVars

\* mdana.py lines 432-433: result['front_matter'], result['file_path']
WithFileInfo(r, front_matter, filename) ==
    IF r = ZeroDivisionError THEN r
    ELSE r @@ [front_matter |-> front_matter,
               file_path |-> <<"folder_path", filename>>]

\* mdana.py lines 417-435: the file is analyzed
MdFileAnalyzed ==
    /\ pc = "loop" /\ analyzer = "md" /\ idx < Len(files)
    /\ ~Truthy(parse_markdown_file(files[idx + 1]).error)
    /\ StoreResult(
           WithFileInfo(
               analyze_markdown_content(
                   parse_markdown_file(files[idx + 1]).body_content,
                   files[idx + 1].filename),
               parse_markdown_file(files[idx + 1]).front_matter,
               files[idx + 1].filename))
    /\ idx' = idx + 1
    /\ UNCHANGED <<failed_files, report>>
    /\ UNCHANGED idleVars

\* mdana.py line 438
MdGenerateReports ==
    /\ pc = "loop" /\ analyzer = "md"
    /\ files # <<>> /\ idx = Len(files)
    /\ report' = generate_reports("md", results, failed_files)
    /\ pc' = "done"
    /\ UNCHANGED <<idx, results, failed_files>>
    /\ UNCHANGED idleVars

BatchNext ==
    \/ PdfNoFiles
    \/ PdfFileFailed
    \/ PdfFileAnalyzed
    \/ PdfGenerateReports
    \/ MdNoFiles
    \/ MdFileFailed
    \/ MdFileAnalyzed
    \/ MdGenerateReports

SpecBatch == BatchInit /\ [][BatchNext]_vars

(***************************************************************************)
(* C4: for every DocumentRecord that analyze_text or                       *)
(* analyze_markdown_content returns, the counts of the quality histogram   *)
(* add up to the segment count: high + medium + low = total_sentences.     *)
(* A record with an error marker carries no histogram; its counts are      *)
(* taken as 0, and its total_sentences is 0.                               *)
(***************************************************************************)
C4_Count(r, q) ==
    IF "quality_distribution" \in DOMAIN r
    THEN r.quality_distribution[q] ELSE 0

C4_HistogramSum ==
    \A k \in DOMAIN results :
        /\ C4_Count(results[k], "high") + C4_Count(results[k], "medium")
               + C4_Count(results[k], "low") = results[k].total_sentences
        /\ "error" \notin DOMAIN results[k]
               => /\ "quality_distribution" \in DOMAIN results[k]
                  /\ results[k].total_sentences > 0

\* a record whose sentences fall into all three tiers
C4_Witness ==
    \E k \in DOMAIN results :
        /\ "quality_distribution" \in DOMAIN results[k]
        /\ results[k].quality_distribution.high >= 1
        /\ results[k].quality_distribution.medium >= 1
        /\ results[k].quality_distribution.low >= 1
        /\ results[k].total_sentences = 3

(***************************************************************************)
(* C5: in every DocumentRecord high_quality_ratio is high / total_sentences*)
(* when total_sentences > 0 and is 0 when total_sentences = 0, and the     *)
(* aggregation of a document never divides by zero.                        *)
(***************************************************************************)
C5_HighQualityRatio ==
    /\ pc # "crashed"
    /\ \A k \in DOMAIN results :
           /\ results[k] # ZeroDivisionError
           /\ results[k].total_sentences >= 0
           /\ results[k].high_quality_ratio.d > 0
           /\ results[k].total_sentences > 0
                  => results[k].high_quality_ratio.n
                         * results[k].total_sentences
                     = results[k].quality_distribution.high
                         * results[k].high_quality_ratio.d
           /\ results[k].total_sentences = 0
                  => results[k].high_quality_ratio = RatZero

\* a record with one high sentence of three beside a record without
\* sentences
C5_Witness ==
    /\ \E k \in DOMAIN results :
           /\ results[k].total_sentences = 3
           /\ results[k].quality_distribution.high = 1
           /\ results[k].high_quality_ratio = [n |-> 1, d |-> 3]
    /\ \E k \in DOMAIN results :
           /\ results[k].total_sentences = 0
           /\ results[k].high_quality_ratio = RatZero

(***************************************************************************)
(* C6: in a batch run every file the loop has taken is in exactly one of   *)
(* the two lists: a file whose extraction or parse reports an error has    *)
(* one FailureRecord {filename, error} and no DocumentRecord, a file that  *)
(* is read without error has one DocumentRecord and no FailureRecord; the  *)
(* run ends only when every file has been taken, so that                   *)
(* len(results) + len(failed_files) is the number of files.                *)
(***************************************************************************)
\* the error the k-th file reports, None when it is read without error
C6_Reported(k) ==
    IF analyzer = "pdf"
    THEN IF ~PDF_AVAILABLE THEN ErrorText.no_pdf_library
         ELSE IF files[k].raises THEN ErrorText.pdf_read ELSE None
    ELSE files[k].raises

C6_Records(k) == {j \in DOMAIN results : results[j].filename = k}

C6_Failures(k) == {j \in DOMAIN failed_files : failed_files[j].filename = k}

C7_Valid == SelectSeq(results, LAMBDA r : "error" \notin DOMAIN r)

C7_Densities(rs) == [k \in DOMAIN rs |-> rs[k].average_density]

C7_Count(rs, r) == Cardinality({k \in DOMAIN rs : rs[k] = r})

C7_Shown == IF analyzer = "pdf" THEN 10 ELSE 15

C7_Ranking ==
    (pc = "done" /\ report # NoneRec) =>
        /\ Len(report.summary.sorted_results) = Len(C7_Valid)
        /\ \A k \in DOMAIN C7_Valid :
               C7_Count(report.summary.sorted_results, C7_Valid[k])
                   = C7_Count(C7_Valid, C7_Valid[k])
        /\ \A k \in 1..(Len(report.summary.sorted_results) - 1) :
               ~RatGT(report.summary.sorted_results[k + 1].average_density,
                      report.summary.sorted_results[k].average_density)
        /\ Len(report.summary.ranking)
               = Min(C7_Shown, Len(report.summary.sorted_results))
        /\ \A k \in DOMAIN report.summary.ranking :
               report.summary.ranking[k] = report.summary.sorted_results[k]
        /\ C7_Densities(C7_Valid)
               = <<Rat(20, 100), Rat(5, 100), Rat(12, 100)>>
           => C7_Densities(report.summary.ranking)
                  = <<Rat(20, 100), Rat(12, 100), Rat(5, 100)>>

\* three valid documents of mean density 0.20, 0.05, 0.12, ranked
C7_Witness ==
    /\ pc = "done" /\ report # NoneRec
    /\ C7_Densities(C7_Valid) = <<Rat(20, 100), Rat(5, 100), Rat(12, 100)>>
    /\ C7_Densities(report.summary.ranking)
           = <<Rat(20, 100), Rat(12, 100), Rat(5, 100)>>

(***************************************************************************)
(* C11: every record analyze_sentence returns has total_chars > 0, and a   *)
(* well-defined density info_score / total_chars; a sentence with no       *)
(* counted character (nothing but ASCII spaces, or nothing at all) gets    *)
(* None instead of a record of density 0.                                  *)
(***************************************************************************)
C11_Counted == Cardinality({k \in DOMAIN sentence : sentence[k] # " "})

C11_PositiveCharCount ==
    pc = "returned" =>
        /\ sent_result # NoneRec =>
              /\ sent_result.total_chars > 0
              /\ sent_result.total_chars = C11_Counted
              /\ sent_result.density.d > 0
        /\ C11_Counted = 0 => sent_result = NoneRec

\* a sentence of spaces only was given and None came back
C11_Witness ==
    /\ pc = "returned" /\ sentence # <<>> /\ C11_Counted = 0
    /\ sent_result = NoneRec

(***************************************************************************)
(* C12 (as amended): while the scanner of process_content is unquoted,     *)
(* every full-width terminal mark is copied and followed immediately by a  *)
(* paragraph break; an ASCII . ? ! is copied like any other character,     *)
(* without a break.  In the returned text of an input without quote        *)
(* characters every full-width terminal mark is followed by two newlines.  *)
(***************************************************************************)
C12_FullWidthMarks == {"u3002", "uFF1F", "uFF01"}
C12_AsciiMarks == {".", "?", "!"}

C12_Reading(marks) ==
    pc = "scan" /\ i < Len(content) /\ content[i + 1] \in marks
        /\ ~in_quotes

C12_BreakAppended ==
    result' = result \o <<<<content[i + 1]>>, <<"u000A", "u000A">>>>

C12_FullWidthMarkBreaks ==
    [][ /\ C12_Reading(C12_FullWidthMarks) => C12_BreakAppended
        /\ C12_Reading(C12_AsciiMarks) =>
              result' = Append(result, <<content[i + 1]>>)
        /\ (pc' = "done" /\ \A k \in DOMAIN content :
                                content[k] \notin {"u0022", "u0027"})
           => \A k \in DOMAIN processed_content' :
                 processed_content'[k] \in C12_FullWidthMarks
                 => /\ k + 2 <= Len(processed_content')
                    /\ processed_content'[k + 1] = "u000A"
                    /\ processed_content'[k + 2] = "u000A" ]_vars

\* a full-width mark has just been read outside quotes and the break is
\* the last piece of the output
C12_Witness ==
    /\ pc = "scan" /\ i > 0 /\ ~in_quotes
    /\ content[i] \in C12_FullWidthMarks
    /\ Len(result) >= 2
    /\ result[Len(result)] = <<"u000A", "u000A">>
    /\ result[Len(result) - 1] = <<content[i]>>

\* C12 as stated: the ASCII marks break the paragraph as well
C12_AnyMarkBreaks ==
    [][ C12_Reading(C12_FullWidthMarks \cup C12_AsciiMarks)
            => C12_BreakAppended ]_vars

(***************************************************************************)
(* Specification SpecDocument: the batch loops run on a folder that holds  *)
(* no file, or one file whose text is made of at most MaxPieces pieces:    *)
(* two words, a space, a newline, a full stop and a quoted question.       *)
(***************************************************************************)
MaxPieces == 3

\* "abcde<?>fghij" in ASCII double quotes, <?> the full-width question mark
QuotedQuestion ==
    <<DQ, "a", "b", "c", "d", "e", FwQuestion, "f", "g", "h", "i", "j", DQ>>

\* the words are of the length the analyzer's filter turns on, and one longer
DocPieces(an) ==
    {IF an = "pdf" THEN <<"a", "b", "c", "d", "e">> ELSE <<"a", "b", "c">>,
     IF an = "pdf" THEN <<"a", "b", "c", "d", "e", "f">>
                   ELSE <<"a", "b", "c", "d">>,
     <<SP>>, <<NL>>, <<".">>, QuotedQuestion}

DocTexts(an) == {Flatten(ps) : ps \in SeqsUpTo(DocPieces(an), MaxPieces)}

\* the files of the folder: readable files with every text, and one file
\* that cannot be read
DocFiles(an) ==
    IF an = "pdf"
    THEN {[text |-> t, raises |-> FALSE] : t \in DocTexts(an)}
             \cup {PdfFiles.unreadable}
    ELSE {[content |-> t, raises |-> None, yaml_ok |-> TRUE] : t \in DocTexts(an)}
             \cup {MdFiles.unreadable}

DocInit ==
    /\ analyzer \in {"pdf", "md"}
    /\ PDF_AVAILABLE = TRUE
    /\ files \in {<<>>} \cup {Listing(<<f>>) : f \in DocFiles(analyzer)}
    /\ idx = 0
    /\ results = <<>>
    /\ failed_files = <<>>
    /\ report = NoneRec
    /\ pc = "loop"
    /\ content = <<>> /\ i = 0 /\ in_quotes = FALSE
    /\ current_quote_start = None /\ result = <<>>
    /\ processed_content = <<>>
    /\ sentence = <<>> /\ context = NoneRec /\ sent_result = NoneRec

SpecDocument == DocInit /\ [][BatchNext]_vars

\* the text the analysis of the one file splits into sentences: clean_text
\* of the extracted text (docana.py line 257), clean_markdown_text of the
\* body (mdana.py line 257)
SplitText ==
    IF analyzer = "pdf"
    THEN clean_text(ExtractTextFromPdf(files[1], PDF_AVAILABLE).text)
    ELSE clean_markdown_text(parse_markdown_file(files[1]).body_content)

\* the one file of the folder has been analyzed and its text was not empty
DocAnalyzed ==
    /\ Len(files) = 1 /\ Len(results) = 1
    /\ IF analyzer = "pdf"
       THEN ~IsEmptyText(SplitText)
       ELSE ~IsEmptyText(parse_markdown_file(files[1]).body_content)

\* the texts of the sentences the record keeps
RecordedSentences ==
    [k \in DOMAIN results[1].sentences |-> results[1].sentences[k].sentence]

(***************************************************************************)
(* C13 (as amended): after the split at the runs of terminal marks a       *)
(* candidate is discarded iff it is empty after trimming or its trimmed    *)
(* length is at most 5 (pdf) / at most 3 (markdown); a trimmed candidate   *)
(* of exactly 5 / 3 characters is discarded, one of 6 / 4 is kept and      *)
(* scored.                                                                 *)
(***************************************************************************)
C13_Trimmed ==
    LET cs == SplitSentences(SplitText)
    IN  [k \in DOMAIN cs |-> Strip(cs[k])]

C13_Selected(least) ==
    SelectSeq(C13_Trimmed, LAMBDA s : s # <<>> /\ Len(s) >= least)

C13_LongerThanMinimum ==
    DocAnalyzed =>
        RecordedSentences
            = C13_Selected(IF analyzer = "pdf" THEN 6 ELSE 4)

\* a candidate of exactly 5 / 3 characters was discarded next to one of
\* 6 / 4 characters that was kept
C13_Witness ==
    /\ DocAnalyzed
    /\ \E k \in DOMAIN C13_Trimmed :
          Len(C13_Trimmed[k]) = IF analyzer = "pdf" THEN 5 ELSE 3
    /\ Len(RecordedSentences) = 1
    /\ Len(RecordedSentences[1]) = IF analyzer = "pdf" THEN 6 ELSE 4

\* C13 as stated: a candidate of exactly the minimum length is kept
C13_MinimumLengthKept ==
    DocAnalyzed =>
        RecordedSentences
            = C13_Selected(IF analyzer = "pdf" THEN 5 ELSE 3)

(***************************************************************************)
(* C14: the split of the analysis pipeline is quote-aware: a terminal mark *)
(* inside a quoted span does not end a segment.  The texts of              *)
(* SpecDocument have one kind of quote character, so the scanner of a      *)
(* quote-aware split is unquoted exactly after an even number of them:     *)
(* in a text with an even number of quote characters every scored segment  *)
(* holds an even number of them, and the quoted question alone is one      *)
(* segment.                                                                *)
(***************************************************************************)
C14_Quotes(s) == Cardinality({k \in DOMAIN s : s[k] = "u0022"})

C14_QuoteAwareSegments ==
    (DocAnalyzed /\ C14_Quotes(SplitText) % 2 = 0) =>
        \A k \in DOMAIN RecordedSentences :
            C14_Quotes(RecordedSentences[k]) % 2 = 0

(***************************************************************************)
(* C15 (as amended): for every scored segment, total_chars is the number   *)
(* of characters of the segment text other than the ASCII space; a tab, a  *)
(* newline or a full-width space inside the segment is counted.  In the    *)
(* pdf pipeline clean_text has turned every run of whitespace into one     *)
(* space, and there total_chars is the number of non-whitespace            *)
(* characters.                                                             *)
(***************************************************************************)
C15_CountExcept(s, S) == Cardinality({k \in DOMAIN s : s[k] \notin S})

C15_AllWhitespace == {" ", "u0009", "u000A", "u3000"}

C15_SpacesNotCounted ==
    DocAnalyzed =>
        \A k \in DOMAIN results[1].sentences :
            LET r == results[1].sentences[k]
            IN  /\ r.total_chars = C15_CountExcept(r.sentence, {" "})
                /\ analyzer = "pdf" =>
                      r.total_chars
                          = C15_CountExcept(r.sentence, C15_AllWhitespace)

\* a markdown segment with a newline inside was scored, the newline counted
C15_Witness ==
    /\ DocAnalyzed /\ analyzer = "md"
    /\ \E k \in DOMAIN results[1].sentences :
          LET r == results[1].sentences[k]
          IN  /\ \E j \in DOMAIN r.sentence : r.sentence[j] = "u000A"
              /\ r.total_chars = Len(r.sentence)

\* C15 as stated: no whitespace character is counted, in both analyzers
C15_NonWhitespaceCount ==
    DocAnalyzed =>
        \A k \in DOMAIN results[1].sentences :
            results[1].sentences[k].total_chars
                = C15_CountExcept(results[1].sentences[k].sentence,
                                  C15_AllWhitespace)

(***************************************************************************)
(* C16: a file that is read without error and whose text is empty after    *)
(* cleaning, or whose split and filter leave no segment, gets exactly one  *)
(* record in results, with an error marker, total_sentences = 0,           *)
(* average_density = 0, high_quality_ratio = 0 and no sentence; it is not  *)
(* listed in failed_files, and the loop goes on with the next file.        *)
(***************************************************************************)
\* the file was read without error
C16_Read(k) ==
    LET e == IF analyzer = "pdf"
             THEN ExtractTextFromPdf(files[k], PDF_AVAILABLE).error
             ELSE parse_markdown_file(files[k]).error
    IN  e = None \/ e = ""

\* the text the analysis gets, and the text it splits
C16_Given(k) ==
    IF analyzer = "pdf"
    THEN clean_text(ExtractTextFromPdf(files[k], PDF_AVAILABLE).text)
    ELSE parse_markdown_file(files[k]).body_content

C16_Cleaned(k) ==
    IF analyzer = "pdf" THEN C16_Given(k)
    ELSE clean_markdown_text(C16_Given(k))

C16_NoValidSegment(k) ==
    IF C16_Given(k) = <<>> \/ C16_Given(k) = NoText THEN TRUE
    ELSE LET cs == SplitSentences(C16_Cleaned(k))
         IN  \A j \in DOMAIN cs :
                 Len(Strip(cs[j])) <= IF analyzer = "pdf" THEN 5 ELSE 3

C16_EmptyDocumentRecord ==
    /\ pc # "crashed"
    /\ \A k \in 1..idx :
          (C16_Read(k) /\ C16_NoValidSegment(k)) =>
              /\ Cardinality({j \in DOMAIN results :
                                  results[j].filename = k}) = 1
              /\ \A j \in DOMAIN results :
                     results[j].filename = k =>
                         /\ "error" \in DOMAIN results[j]
                         /\ results[j].total_sentences = 0
                         /\ results[j].average_density = [n |-> 0, d |-> 1]
                         /\ results[j].high_quality_ratio = [n |-> 0, d |-> 1]
                         /\ results[j].sentences = <<>>
              /\ \A j \in DOMAIN failed_files : failed_files[j].filename # k
    /\ \A j \in DOMAIN results :
          "error" \in DOMAIN results[j] =>
              C16_NoValidSegment(results[j].filename)

\* an empty document, then one without a valid segment, then a valid one:
\* three records, the first two marked, and the run has ended
C16_Witness ==
    /\ pc = "done" /\ Len(files) = 3 /\ Len(results) = 3
    /\ failed_files = <<>>
    /\ C16_Given(1) = <<>>
    /\ C16_Given(2) # <<>> /\ C16_NoValidSegment(2)
    /\ "error" \in DOMAIN results[1]
    /\ "error" \in DOMAIN results[2]
    /\ results[1].error # results[2].error
    /\ "error" \notin DOMAIN results[3]
    /\ results[3].total_sentences > 0

(***************************************************************************)
(* C17: in a record without error marker, total_sentences is the number N  *)
(* of scored segments of the document, total_chars the sum of their        *)
(* character counts and average_density the arithmetic mean of their       *)
(* densities, all N of them; sentences holds the first min(N, 10) (pdf) /  *)
(* min(N, 15) (markdown) of them in text order.  Every record is the last  *)
(* of results in the state that follows its analysis, where it is checked. *)
(***************************************************************************)
\* the scored segments of file k, in text order
C17_Segments(k) ==
    LET cs == SplitSentences(C16_Cleaned(k))
    IN  SelectSeq([j \in DOMAIN cs |-> Strip(cs[j])],
                  LAMBDA s : Len(s) > IF analyzer = "pdf" THEN 5 ELSE 3)

C17_Scored(k, s) ==
    AnalyzeSentence(analyzer, s,
                    IF analyzer = "pdf" THEN NoneRec
                    ELSE get_sentence_context(s, C16_Given(k)))

C17_SampleSize == IF analyzer = "pdf" THEN 10 ELSE 15

C17_StatsOverAllSegments ==
    (results # <<>> /\ "error" \notin DOMAIN results[Len(results)]) =>
        LET r == results[Len(results)]
            segs == C17_Segments(r.filename)
            N == Len(segs)
            sum == SumRat([j \in DOMAIN segs |->
                              C17_Scored(r.filename, segs[j]).density])
            shown == IF N < C17_SampleSize THEN N ELSE C17_SampleSize
        IN  /\ N > 0
            /\ r.total_sentences = N
            /\ r.total_chars =
                   SumSeq([j \in DOMAIN segs |->
                              Cardinality({m \in DOMAIN segs[j] :
                                              segs[j][m] # " "})])
            /\ r.average_density.n * N * sum.d = sum.n * r.average_density.d
            /\ Len(r.sentences) = shown
            /\ \A j \in 1..shown :
                   /\ r.sentences[j].sentence = segs[j]
                   /\ r.sentences[j] = C17_Scored(r.filename, segs[j])

\* a document with one segment more than the sample holds
C17_Witness ==
    /\ results # <<>> /\ "error" \notin DOMAIN results[Len(results)]
    /\ results[Len(results)].total_sentences = C17_SampleSize + 1
    /\ Len(results[Len(results)].sentences) = C17_SampleSize
    /\ results[Len(results)].total_chars = 6 * (C17_SampleSize + 1)

(***************************************************************************)
(* C18: the corpus mean density of the report is the sum of the valid      *)
(* documents' mean densities divided by their number, whatever their       *)
(* segment counts; the corpus high-quality ratio is the number of          *)
(* high-tier segments of the valid documents divided by the number of      *)
(* their segments.  Without a valid document no corpus figure is written.  *)
(***************************************************************************)
C18_Valid == SelectSeq(results, LAMBDA r : "error" \notin DOMAIN r)

\* the sum of the fractions ps[k][1] / ps[k][2], as the pair of a numerator
\* and a positive denominator, in lowest terms
RECURSIVE C18_Sum(_)
C18_Sum(ps) ==
    IF ps = <<>> THEN <<0, 1>>
    ELSE LET rest == C18_Sum(Tail(ps))
             num == Head(ps)[1] * rest[2] + rest[1] * Head(ps)[2]
             den == Head(ps)[2] * rest[2]
             g == GCD(num, den)
         IN  <<num \div g, den \div g>>

\* the fraction p divided by the positive integer k, in lowest terms
C18_Quotient(p, k) ==
    LET g == GCD(p[1], p[2] * k) IN <<p[1] \div g, (p[2] * k) \div g>>

C18_SumOfMeans ==
    C18_Sum([k \in DOMAIN C18_Valid |->
                <<C18_Valid[k].average_density.n,
                  C18_Valid[k].average_density.d>>])

C18_Segments ==
    C18_Sum([k \in DOMAIN C18_Valid |->
                <<C18_Valid[k].total_sentences, 1>>])[1]

C18_HighSegments ==
    C18_Sum([k \in DOMAIN C18_Valid |->
                <<C18_Valid[k].quality_distribution.high, 1>>])[1]

\* the mean weighted by segment count: sum of mean * count, over the count
C18_WeightedSum ==
    C18_Sum([k \in DOMAIN C18_Valid |->
                <<C18_Valid[k].average_density.n
                      * C18_Valid[k].total_sentences,
                  C18_Valid[k].average_density.d>>])

C18_Mean ==
    IF analyzer = "pdf" THEN report.summary.overall.avg_density
    ELSE report.summary.overall.average_density

C18_Ratio ==
    IF analyzer = "pdf" THEN report.summary.overall.high_quality_ratio
    ELSE report.summary.overall.global_high_quality_ratio

C18_MeanOfDocumentMeans ==
    (pc = "done" /\ report # NoneRec) =>
        IF C18_Valid = <<>> THEN report.summary.overall = EmptyDict
        ELSE /\ C18_Mean.d > 0 /\ C18_Ratio.d > 0
             /\ <<C18_Mean.n, C18_Mean.d>>
                    = C18_Quotient(C18_SumOfMeans, Len(C18_Valid))
             /\ C18_Segments > 0
             /\ <<C18_Ratio.n, C18_Ratio.d>>
                    = C18_Quotient(<<C18_HighSegments, 1>>, C18_Segments)

\* a report over documents of different sizes, where the mean of the
\* document means is not the mean weighted by segment count
C18_Witness ==
    /\ pc = "done" /\ report # NoneRec /\ Len(C18_Valid) >= 2
    /\ \E j, k \in DOMAIN C18_Valid :
          C18_Valid[j].total_sentences # C18_Valid[k].total_sentences
    /\ C18_Quotient(C18_SumOfMeans, Len(C18_Valid))
           # C18_Quotient(C18_WeightedSum, C18_Segments)
    /\ C18_HighSegments > 0 /\ C18_HighSegments < C18_Segments

(***************************************************************************)
(* Python floats as IEEE-754 doubles, for the sums whose rounding the      *)
(* order of the addends decides.  A positive double is                     *)
(* 0.b1 b2 ... b53 * 2^e with b1 = 1: the record [e |-> e, m |-> bits].    *)
(* Zero is [e |-> 0, m |-> <<>>].  Rounding is to nearest, ties to even.   *)
(***************************************************************************)
MantissaBits == 53

FloatZero == [e |-> 0, m |-> <<>>]

Zeros(n) == [k \in 1..n |-> 0]

Pow2Table ==
    <<1, 2, 4, 8, 16, 32, 64, 128, 256, 512, 1024, 2048, 4096, 8192, 16384,
      32768, 65536, 131072, 262144, 524288, 1048576, 2097152, 4194304,
      8388608, 16777216, 33554432, 67108864, 134217728, 268435456,
      536870912, 1073741824>>

Pow2(k) == Pow2Table[k + 1]

\* 2^k mod den, for k <= 60 and den < 2^15
PowMod(k, den) ==
    ((Pow2(k \div 2) % den) * (Pow2(k - k \div 2) % den)) % den

\* the first n binary digits of num / den (0 <= num < den < 2^15)
QuotientBits(num, den, n) ==
    [k \in 1..n |->
        IF 2 * ((num * PowMod(k - 1, den)) % den) >= den THEN 1 ELSE 0]

\* what the division leaves after n digits
QuotientRest(num, den, n) == (num * PowMod(n, den)) % den

\* bits + 1: the digits, and whether a carry leaves the first digit
Increment(bits) ==
    [k \in DOMAIN bits |->
        IF \A j \in (k + 1)..Len(bits) : bits[j] = 1
        THEN 1 - bits[k] ELSE bits[k]]

AllOnes(bits) == \A j \in DOMAIN bits : bits[j] = 1

\* the carry into digit k of a + b (digit sequences of one length): some
\* lower digit generates it and the digits between pass it on
CarryInto(a, b, k) ==
    \E j \in (k + 1)..Len(a) :
        /\ a[j] = 1 /\ b[j] = 1
        /\ \A h \in (k + 1)..(j - 1) : a[h] = 1 \/ b[h] = 1

AddBits(a, b) ==
    [k \in DOMAIN a |->
        (a[k] + b[k] + IF CarryInto(a, b, k) THEN 1 ELSE 0) % 2]

\* round 0.digits * 2^e (first digit 1, at least MantissaBits digits; more
\* is TRUE when non-zero digits follow those given) to a double
RoundToDouble(digits, more, e) ==
    LET m == SubSeq(digits, 1, MantissaBits)
        guard == IF Len(digits) > MantissaBits
                 THEN digits[MantissaBits + 1] ELSE 0
        sticky == more \/ \E k \in (MantissaBits + 2)..Len(digits) :
                                digits[k] = 1
        up == guard = 1 /\ (sticky \/ m[MantissaBits] = 1)
    IN  IF ~up THEN [e |-> e, m |-> m]
        ELSE IF AllOnes(m)
        THEN [e |-> e + 1, m |-> <<1>> \o Zeros(MantissaBits - 1)]
        ELSE [e |-> e, m |-> Increment(m)]

\* the exponent e with 2^(e-1) <= a / b < 2^e, for a, b > 0
RECURSIVE ExponentOf(_, _, _)
ExponentOf(a, b, e) ==
    IF a >= b THEN ExponentOf(a, 2 * b, e + 1)
    ELSE IF 2 * a < b THEN ExponentOf(2 * a, b, e - 1)
    ELSE e

\* the double a / b of two small non-negative integers (b > 0): the float
\* division of two floats that hold a and b exactly
FloatQuotient(a, b) ==
    IF a = 0 THEN FloatZero
    ELSE LET e == ExponentOf(a, b, 0)
             num == IF e < 0 THEN a * Pow2(-e) ELSE a
             den == IF e > 0 THEN b * Pow2(e) ELSE b
         IN  RoundToDouble(QuotientBits(num, den, MantissaBits + 1),
                           QuotientRest(num, den, MantissaBits + 1) # 0, e)

\* x + y of two doubles that are not negative
FloatAdd(x, y) ==
    IF x = FloatZero THEN y
    ELSE IF y = FloatZero THEN x
    ELSE LET big == IF x.e >= y.e THEN x ELSE y
             small == IF x.e >= y.e THEN y ELSE x
             d == big.e - small.e
             a == big.m \o Zeros(d)
             b == Zeros(d) \o small.m
         IN  IF d > MantissaBits + 2 THEN big
             ELSE IF CarryInto(a, b, 0)
             THEN RoundToDouble(<<1>> \o AddBits(a, b), FALSE, big.e + 1)
             ELSE RoundToDouble(AddBits(a, b), FALSE, big.e)

\* the sum of a list of doubles as sum() takes it, from the left
RECURSIVE FloatSum(_)
FloatSum(xs) ==
    IF xs = <<>> THEN FloatZero
    ELSE FloatAdd(FloatSum(SubSeq(xs, 1, Len(xs) - 1)), xs[Len(xs)])

\* the integer that the first k digits of bits spell, mod n (n < 2^15)
PrefixMod(bits, k, n) ==
    Cardinality({<<j, t>> \in (1..k) \X (1..n) :
                    bits[j] = 1 /\ t <= PowMod(k - j, n)}) % n

\* the digits of bits / n
DivideBits(bits, n) ==
    [k \in DOMAIN bits |-> (2 * PrefixMod(bits, k - 1, n) + bits[k]) \div n]

LeadingZeros(bits) ==
    Cardinality({k \in DOMAIN bits : \A j \in 1..k : bits[j] = 0})

\* x / n of a double that is not negative and an integer n > 0
FloatDivInt(x, n) ==
    IF x = FloatZero THEN FloatZero
    ELSE LET q == DivideBits(x.m, n)
             r == PrefixMod(x.m, Len(x.m), n)
             z == LeadingZeros(q)
             digits == SubSeq(q \o QuotientBits(r, n, z + 1), z + 1,
                              MantissaBits + z + 1)
         IN  RoundToDouble(digits, QuotientRest(r, n, z + 1) # 0, x.e - z)

\* x > y of two doubles that are not negative
FloatGT(x, y) ==
    IF x = FloatZero THEN FALSE
    ELSE IF y = FloatZero THEN TRUE
    ELSE \/ x.e > y.e
         \/ /\ x.e = y.e
            /\ \E k \in 1..MantissaBits :
                   /\ x.m[k] > y.m[k]
                   /\ \A j \in 1..(k - 1) : x.m[j] = y.m[j]

\* the next double above a positive double
FloatSucc(x) ==
    IF AllOnes(x.m)
    THEN [e |-> x.e + 1, m |-> <<1>> \o Zeros(MantissaBits - 1)]
    ELSE [e |-> x.e, m |-> Increment(x.m)]

RECURSIVE FloatSuccs(_, _)
FloatSuccs(x, n) == IF n = 0 THEN x ELSE FloatSuccs(FloatSucc(x), n - 1)

\* x and y are at most n doubles apart
WithinUlps(x, y, n) ==
    \/ x = y
    \/ /\ x # FloatZero /\ y # FloatZero
       /\ \E k \in 1..n : FloatSuccs(x, k) = y \/ FloatSuccs(y, k) = x

(***************************************************************************)
(* Specification SpecCorpus: the corpus figures in floating point.         *)
(* generate_summary_report (docana.py lines 457-463) and                   *)
(* calculate_global_stats (mdana.py lines 756-791) add the document means  *)
(* with sum(), left to right, in IEEE-754 doubles; every addition rounds.  *)
(* The records are those of documents whose sentences score through        *)
(* numbers only, so that every score is a float without rounding, and the  *)
(* state at the start is the one in which generate_reports is entered.     *)
(***************************************************************************)
MaxDocs == 3

\* density = info_score / total_chars (docana.py line 131, mdana.py line
\* 220) of a score given in tenths and a multiple of 0.5
FloatDensity(score, total_chars) ==
    IF total_chars > 0 THEN FloatQuotient(score, 10 * total_chars)
    ELSE FloatZero

\* the float that a literal such as 0.15 is
FloatOf(rat) == FloatQuotient(rat.n, rat.d)

\* the quality ladder: docana.py lines 134-139, mdana.py lines 223-228
FloatQuality(an, density) ==
    IF FloatGT(density, FloatOf(HighThreshold(an))) THEN "high"
    ELSE IF FloatGT(density, FloatOf(MediumThreshold(an))) THEN "medium"
    ELSE "low"

\* analyze_sentence on a sentence of total_chars characters that holds
\* numbers and no other scored word
NumbersSentence(an, numbers, total_chars) ==
    [density |-> FloatDensity(numbers * pdf_weights.number, total_chars),
     quality |-> FloatQuality(an, FloatDensity(numbers * pdf_weights.number,
                                               total_chars)),
     total_chars |-> total_chars]

\* sum(densities) / len(densities): docana.py lines 194-195, mdana.py
\* lines 295-296
FloatMeanOf(xs) == FloatDivInt(FloatSum(xs), Len(xs))

\* the fields of a DocumentRecord that the corpus figures read: docana.py
\* lines 194-214, mdana.py lines 295-310
CorpusRecord(filename, rs) ==
    [filename |-> filename,
     total_sentences |-> Len(rs),
     total_chars |-> SumSeq([k \in DOMAIN rs |-> rs[k].total_chars]),
     average_density |-> FloatMeanOf([k \in DOMAIN rs |-> rs[k].density]),
     quality_distribution |-> QualityDistribution(rs)]

\* documents of mean density 0.1, 0.3 and 0.2 (two sentences), and one that
\* holds no number
CorpusDocuments(an) ==
    {CorpusRecord("d10", <<NumbersSentence(an, 1, 30)>>),
     CorpusRecord("d30", <<NumbersSentence(an, 1, 10)>>),
     CorpusRecord("d10d30", <<NumbersSentence(an, 1, 30),
                              NumbersSentence(an, 1, 10)>>),
     CorpusRecord("d00", <<NumbersSentence(an, 0, 7)>>)}

\* a mean updated record by record: mean = (mean + x) / 2
RECURSIVE CorpusMean_Running(_)
CorpusMean_Running(valid) ==
    IF Len(valid) = 1 THEN valid[1].average_density
    ELSE FloatDivInt(
             FloatAdd(CorpusMean_Running(SubSeq(valid, 1, Len(valid) - 1)),
                      valid[Len(valid)].average_density), 2)

\* sum(r['average_density'] for r in valid_results) / len(valid_results):
\* docana.py line 460, mdana.py line 775
CorpusMean(valid) ==
    FloatMeanOf([k \in DOMAIN valid |-> valid[k].average_density])

\* the figures that docana.py lines 458-463 and mdana.py lines 762-776
\* compute; total_sentences is positive
CorpusFigures(valid, total_sentences, total_high_quality) ==
    [total_sentences |-> total_sentences,
     total_chars |-> SumSeq([k \in DOMAIN valid |-> valid[k].total_chars]),
     average_density |-> CorpusMean(valid),
     high_quality_sentences |-> total_high_quality,
     high_quality_ratio |->
         IF total_sentences > 0
         THEN FloatQuotient(total_high_quality, total_sentences)
         ELSE FloatZero,
     quality_totals |-> QualityTotals(valid)]

\* if valid_results: (docana.py line 457); if not valid_results: return {}
\* (mdana.py lines 759-760)
FloatOverall(valid) ==
    IF valid = <<>> THEN EmptyDict
    ELSE CorpusFigures(
             valid,
             SumSeq([k \in DOMAIN valid |-> valid[k].total_sentences]),
             SumSeq([k \in DOMAIN valid |->
                        valid[k].quality_distribution.high]))

CorpusInit ==
    /\ analyzer \in {"pdf", "md"}
    /\ PDF_AVAILABLE = TRUE
    /\ results \in SeqsUpTo(CorpusDocuments(analyzer), MaxDocs)
    /\ files = [k \in DOMAIN results |-> results[k].filename]
    /\ idx = Len(results)
    /\ failed_files = <<>>
    /\ report = NoneRec
    /\ pc = "reports"
    /\ content = <<>> /\ i = 0 /\ in_quotes = FALSE
    /\ current_quote_start = None /\ result = <<>>
    /\ processed_content = <<>>
    /\ sentence = <<>> /\ context = NoneRec /\ sent_result = NoneRec

\* generate_summary_report: docana.py lines 447-463
PdfCorpusFigures ==
    /\ pc = "reports" /\ analyzer = "pdf"
    /\ report' = [overall |-> FloatOverall(ValidResults(results))]
    /\ pc' = "done"
    /\ UNCHANGED <<idx, results, failed_files>>
    /\ UNCHANGED idleVars

\* calculate_global_stats: mdana.py lines 756-776
MdCorpusFigures ==
    /\ pc = "reports" /\ analyzer = "md"
    /\ report' = [overall |-> FloatOverall(ValidResults(results))]
    /\ pc' = "done"
    /\ UNCHANGED <<idx, results, failed_files>>
    /\ UNCHANGED idleVars

CorpusNext == PdfCorpusFigures \/ MdCorpusFigures

SpecCorpus == CorpusInit /\ [][CorpusNext]_vars

(***************************************************************************)
(* C19: the corpus totals (sentences, characters, the per-tier totals) and *)
(* the corpus high-quality ratio are the same for every order of the same  *)
(* records, and the corpus mean density of two orders of n records, none   *)
(* of a negative mean, is the same up to the rounding of the               *)
(* floating-point sum: the two means lie within 2n units in the last place *)
(* of each other.                                                          *)
(***************************************************************************)
C19_Orders ==
    {[k \in DOMAIN results |-> results[p[k]]] :
        p \in {q \in [DOMAIN results -> DOMAIN results] :
                  \A a, b \in DOMAIN results : q[a] = q[b] => a = b}}

C19_Totals(figures) == [f \in DOMAIN figures \ {"average_density"} |->
                           figures[f]]

C19_SameUpToRounding ==
    (pc = "done" /\ results # <<>>) =>
        \A other \in C19_Orders :
            LET figures == FloatOverall(ValidResults(other))
            IN  /\ C19_Totals(figures) = C19_Totals(report.overall)
                /\ WithinUlps(figures.average_density,
                              report.overall.average_density,
                              2 * Len(results))

\* the figures of three records whose means add up differently in another
\* order
C19_Witness ==
    /\ pc = "done" /\ Len(results) = 3
    /\ \E other \in C19_Orders :
           FloatOverall(ValidResults(other)).average_density
               # report.overall.average_density

\* C19 as the specification words it: every order gives the same figures,
\* the mean density among them
C19_SameForEveryOrder ==
    (pc = "done" /\ results # <<>>) =>
        \A other \in C19_Orders :
            FloatOverall(ValidResults(other)) = report.overall

(***************************************************************************)
(* C20: a batch run takes the files one after another, each step placing   *)
(* the next file of the listing, whole, in results or in failed_files;     *)
(* generate_reports writes the report once, when every file of the folder  *)
(* has been placed, and a run that has ended on a folder holding a file    *)
(* has written it; nothing happens after the end; the records of results   *)
(* stand in the order of the listing.                                      *)
(***************************************************************************)
\* the step places file idx + 1 of the listing, and only that file
C20_PlacesNextFile ==
    \/ /\ Len(results') = Len(results) + 1
       /\ SubSeq(results', 1, Len(results)) = results
       /\ results'[Len(results')].filename = files[idx + 1].filename
       /\ failed_files' = failed_files
    \/ /\ Len(failed_files') = Len(failed_files) + 1
       /\ SubSeq(failed_files', 1, Len(failed_files)) = failed_files
       /\ failed_files'[Len(failed_files')].filename
              = files[idx + 1].filename
       /\ results' = results

C20_InListingOrder(rs) ==
    \A a, b \in DOMAIN rs : a < b => rs[a].filename < rs[b].filename

C20_Step ==
    /\ pc = "loop" /\ pc' \in {"loop", "done"}
    /\ idx' \in {idx, idx + 1}
    /\ idx' = idx + 1 =>
           /\ idx < Len(files) /\ C20_PlacesNextFile
           /\ report = NoneRec /\ report' = NoneRec /\ pc' = "loop"
    /\ idx' = idx =>
           /\ results' = results /\ failed_files' = failed_files
           /\ pc' = "done"
    /\ Len(results') + Len(failed_files') = idx'
    /\ C20_InListingOrder(results') /\ C20_InListingOrder(failed_files')
    /\ report' # report =>
           /\ report = NoneRec
           /\ idx = Len(files)
           /\ Len(results) + Len(failed_files) = Len(files)
           /\ report' = generate_reports(analyzer, results, failed_files)
    /\ (pc' = "done" /\ files # <<>>) =>
           report' # NoneRec /\ report' # report

C20_OneAfterAnother == [][C20_Step]_vars

\* a folder of three files, the second unreadable, after its report
C20_Witness ==
    /\ pc = "done" /\ report # NoneRec
    /\ Len(files) = 3 /\ idx = 3
    /\ Len(results) = 2 /\ Len(failed_files) = 1
    /\ results[1].filename = 1 /\ results[2].filename = 3
    /\ failed_files[1].filename = 2

(***************************************************************************)
(* C21: the DocumentRecord of a file is the record that the analysis of    *)
(* that file alone gives, whatever files stand before it in the folder,    *)
(* analyzed or failed; but for the name of the file it is a function of    *)
(* the text only.  A step leaves the records it finds in results as they   *)
(* are.                                                                    *)
(***************************************************************************)
\* the record of a folder that holds the file alone
C21_Alone(file) ==
    IF analyzer = "pdf"
    THEN analyze_text(clean_text(ExtractTextFromPdf(file,
                                                    PDF_AVAILABLE).text), 1)
    ELSE WithFileInfo(
             analyze_markdown_content(parse_markdown_file(file).body_content,
                                      1),
             parse_markdown_file(file).front_matter, 1)

\* the file without its place in the listing
C21_Unlisted(file) ==
    [f \in DOMAIN file \ {"filename"} |-> file[f]] @@ [filename |-> 1]

\* the record r under the name of the file filename
C21_Named(r, filename) ==
    IF analyzer = "pdf" THEN [r EXCEPT !.filename = filename]
    ELSE [r EXCEPT !.filename = filename,
                   !.file_path = <<"folder_path", filename>>]

C21_OwnTextOnly ==
    [][ IF Len(results') = Len(results) THEN results' = results
        ELSE results' =
                 Append(results,
                        C21_Named(C21_Alone(C21_Unlisted(files[idx + 1])),
                                  files[idx + 1].filename)) ]_vars

\* the same document first and last in a folder, a failed file between
C21_Witness ==
    /\ pc = "done" /\ Len(files) = 3
    /\ Len(results) = 2 /\ Len(failed_files) = 1
    /\ failed_files[1].filename = 2
    /\ "error" \notin DOMAIN results[1]
    /\ C21_Named(results[1], 3) = results[2]

(***************************************************************************)
(* C22: in the markdown analyzer the context bonus of a sentence is the    *)
(* heading bonus 1.8 when is_heading is set plus the list-item bonus 1.2   *)
(* when is_list_item is set, the heading bonus being the larger one;       *)
(* is_blockquote and heading_level are recorded in the result but change   *)
(* no score; without a context the bonus is 0.  Scores are in tenths.      *)
(***************************************************************************)
\* the score of the counts that the result records, without any bonus
C22_Base == InfoScore("md", sent_result, 0)

C22_SameFlags(ctx) ==
    /\ ctx # NoneRec
    /\ ctx.is_heading = context.is_heading
    /\ ctx.is_list_item = context.is_list_item

C22_ContextBonus ==
    (Scored /\ analyzer = "md") =>
        /\ md_weights.heading = 18 /\ md_weights.list_item = 12
        /\ md_weights.heading > md_weights.list_item
        /\ context = NoneRec =>
              /\ sent_result.info_score = C22_Base
              /\ sent_result.context = EmptyDict
        /\ context # NoneRec =>
              /\ sent_result.info_score =
                    C22_Base + (IF context.is_heading THEN 18 ELSE 0)
                             + (IF context.is_list_item THEN 12 ELSE 0)
              /\ sent_result.context = context
              /\ \A ctx \in ContextInputs : C22_SameFlags(ctx) =>
                    ContextBonus("md", ctx) = ContextBonus("md", context)

\* a heading that is also a list item inside a blockquote: 1.8 + 1.2
C22_Witness ==
    /\ Scored /\ analyzer = "md" /\ sentence = W_15
    /\ context = Context(TRUE, 1, TRUE, TRUE)
    /\ sent_result.info_score = 60
    /\ sent_result.context.is_blockquote
    /\ ContextBonus("md", Context(TRUE, 6, TRUE, FALSE)) = 30

(***************************************************************************)
(* C23: get_sentence_context sets is_heading, with level L, exactly when   *)
(* the text of the sentence is contained in a heading line of level L,     *)
(* is_list_item exactly when it is contained in a list-item line           *)
(* (bulleted or numbered, the lines extracted into the list-item           *)
(* structural elements), is_blockquote exactly when it is contained in a   *)
(* blockquote line; heading_level is 0 when is_heading is false and 1..6   *)
(* otherwise.  Stated of the context recorded with every scored sentence   *)
(* of every markdown DocumentRecord.                                       *)
(***************************************************************************)
C23_Lines(file) == SplitLines(parse_markdown_file(file).body_content)

\* the lines of one of the kinds that contain the text
C23_LinesWith(kinds, text, lines) ==
    {k \in DOMAIN lines :
        /\ \E kind \in kinds : MarkedLine(kind, lines[k]).len > 0
        /\ IsSubstring(text, lines[k])}

C23_AsStated(ctx, text, lines) ==
    /\ ctx.is_heading <=> C23_LinesWith({"heading"}, text, lines) # {}
    /\ ctx.is_heading =>
           \E k \in C23_LinesWith({"heading"}, text, lines) :
               ctx.heading_level = MarkedLine("heading", lines[k]).level
    /\ ctx.heading_level \in IF ctx.is_heading THEN 1..6 ELSE {0}
    /\ ctx.is_list_item <=>
           C23_LinesWith({"list_item", "numbered_list"}, text, lines) # {}
    /\ ctx.is_blockquote <=>
           C23_LinesWith({"blockquote"}, text, lines) # {}

C23_ContextOfLines ==
    analyzer = "md" =>
        \A k \in DOMAIN results : "error" \notin DOMAIN results[k] =>
            \A j \in DOMAIN results[k].sentences :
                C23_AsStated(results[k].sentences[j].context,
                             results[k].sentences[j].sentence,
                             C23_Lines(files[results[k].filename]))

(***************************************************************************)
(* C24: in analyze_markdown_content the code_snippets of a segment is the  *)
(* number of inline-code spans, and its links the number of markdown link  *)
(* spans, contained in that segment of the document: a sentence of the     *)
(* source with such a span is scored with its count, and the totals        *)
(* code_snippets_count and links_count of the document count the spans.    *)
(* The segments of the document are the sentences of its body with the     *)
(* spans left in place.                                                    *)
(***************************************************************************)
C24_SourceSegments(body) ==
    KeptSentences("md", SplitSentences(
        CollapseSpace(RemoveTables(RemoveEmphasis(RemoveMarkers(
            SubSpans("image", SubSpans("code_block", body))))))))

C24_AsStated(r, segs) ==
    /\ r.content_stats.code_snippets_count
           = SumSeq([j \in DOMAIN segs |-> CountInlineCode(segs[j])])
    /\ r.content_stats.links_count
           = SumSeq([j \in DOMAIN segs |-> CountLinks(segs[j])])
    /\ \A j \in DOMAIN segs :
           CountInlineCode(segs[j]) + CountLinks(segs[j]) > 0 =>
               \E q \in DOMAIN r.sentences :
                   /\ r.sentences[q].code_snippets
                          = CountInlineCode(segs[j])
                   /\ r.sentences[q].links = CountLinks(segs[j])

C24_SpansCounted ==
    analyzer = "md" =>
        \A k \in DOMAIN results : "error" \notin DOMAIN results[k] =>
            C24_AsStated(results[k],
                C24_SourceSegments(
                    parse_markdown_file(files[results[k].filename])
                        .body_content))

(***************************************************************************)
(* C25: when an opening quote is never followed by its closing character,  *)
(* no paragraph break is inserted after any terminal mark from that quote  *)
(* to the end of the text.  The scanner then returns in the quoted state,  *)
(* and the pending quote is the last occurrence of its character (the      *)
(* closing character of a quote of the table is the same character): from  *)
(* it on, every piece of result is one character of the input, and the     *)
(* returned text ends with that part of the input, in which only the runs  *)
(* of newlines of the input itself are shortened.                          *)
(***************************************************************************)
C25_Unclosed == pc = "done" /\ in_quotes

C25_OpenedAt == LastIndexOf(content, current_quote_start)

C25_Rest == SubSeq(content, C25_OpenedAt, Len(content))

C25_NoBreakToEnd ==
    C25_Unclosed =>
        /\ current_quote_start \in DOMAIN quote_pairs
        /\ C25_OpenedAt > 0
        /\ Len(result) >= Len(C25_Rest)
        /\ SubSeq(result, Len(result) - Len(C25_Rest) + 1, Len(result))
               = [k \in DOMAIN C25_Rest |-> <<C25_Rest[k]>>]
        /\ Len(processed_content) >= Len(CollapseNewlines(C25_Rest))
        /\ SubSeq(processed_content,
                  Len(processed_content)
                      - Len(CollapseNewlines(C25_Rest)) + 1,
                  Len(processed_content))
               = CollapseNewlines(C25_Rest)

\* a break before the quote, two terminal marks behind it
C25_Witness ==
    /\ C25_Unclosed
    /\ content = <<FwPeriod, DQ, FwPeriod, FwQuestion>>
    /\ processed_content = <<FwPeriod, NL, NL, DQ, FwPeriod, FwQuestion>>

(***************************************************************************)
(* C26: the segmenter keeps a single active quote type taken from a fixed  *)
(* table of paired quote characters, CJK and ASCII variants.  An opening   *)
(* quote read while unquoted enters the quoted state and records its       *)
(* expected closing character; only that closing character leaves the      *)
(* quoted state; any other quote character read while quoted is copied     *)
(* unchanged and neither nests nor closes; after every step in_quotes is   *)
(* true exactly when a recorded opening quote is pending.                  *)
(***************************************************************************)
\* the pairs of the claim: the curly double and single quotes, and the two
\* ASCII quotes that close themselves
C26_Pairs ==
    [c \in {LDQ, "u2018", DQ, SQ} |->
        IF c = LDQ THEN RDQ ELSE IF c = "u2018" THEN "u2019" ELSE c]

C26_Reading == pc = "scan" /\ i < Len(content)

C26_Step ==
    /\ (C26_Reading /\ ~in_quotes /\ char \in DOMAIN C26_Pairs)
           => (in_quotes' /\ current_quote_start' = char)
    /\ (C26_Reading /\ ~in_quotes /\ char \notin DOMAIN C26_Pairs)
           => ~in_quotes'
    /\ (C26_Reading /\ in_quotes /\ char = C26_Pairs[current_quote_start])
           => ~in_quotes'
    /\ (C26_Reading /\ in_quotes /\ char # C26_Pairs[current_quote_start])
           => /\ in_quotes' /\ current_quote_start' = current_quote_start
              /\ char \notin TerminalMarks
                     => result' = Append(result, <<char>>)
    /\ in_quotes' <=> current_quote_start' \in DOMAIN C26_Pairs
    /\ ~in_quotes' <=> current_quote_start' = None

C26_SingleQuoteType == [][C26_Step]_vars

(***************************************************************************)
(* C27: every corpus-level output, the totals, the mean, the ranking and   *)
(* the count of successfully analysed files, is computed over exactly the  *)
(* records without an error marker, and the count of successful files is   *)
(* the same in the JSON report and in the summary report.                  *)
(***************************************************************************)
C27_WithoutError ==
    SelectSeq(results, LAMBDA r : "error" \notin DOMAIN r)

C27_Reported == pc = "done" /\ report # NoneRec

C27_OverValidRecords ==
    C27_Reported =>
        /\ report.summary.successful = Len(C27_WithoutError)
        /\ report.json.successful_files = Len(C27_WithoutError)
        /\ report.json.successful_files = report.summary.successful
        /\ report.summary.overall = Overall(analyzer, C27_WithoutError)
        /\ Len(report.summary.sorted_results) = Len(C27_WithoutError)
        /\ \A k \in DOMAIN report.summary.sorted_results :
               \E j \in DOMAIN C27_WithoutError :
                   report.summary.sorted_results[k] = C27_WithoutError[j]

(***************************************************************************)
(* C28: process_content changes nothing but newlines: the returned text    *)
(* without its newline characters is the input without its newline         *)
(* characters, so that no other character is added, removed or moved, and  *)
(* the returned text holds no run of three or more newlines.               *)
(***************************************************************************)
C28_WithoutNewlines(s) == SelectSeq(s, LAMBDA c : c # NL)

C28_LongRun(s) ==
    \E k \in 1..(Len(s) - 2) : s[k] = NL /\ s[k + 1] = NL /\ s[k + 2] = NL

C28_OnlyNewlines ==
    pc = "done" =>
        /\ C28_WithoutNewlines(processed_content)
               = C28_WithoutNewlines(content)
        /\ ~C28_LongRun(processed_content)

\* a break inserted in front of the newlines of the input: four newlines
\* in a row are joined and two are returned
C28_Witness ==
    /\ pc = "done"
    /\ content = <<"a", FwPeriod, NL, NL>>
    /\ Join(result) = <<"a", FwPeriod, NL, NL, NL, NL>>
    /\ processed_content = <<"a", FwPeriod, NL, NL>>

(***************************************************************************)
(* C29: process_content is idempotent: process_content of a text that     *)
(* process_content returned is that text.  The returned text of the        *)
(* scanner is the value of the function ProcessContent on its input, and   *)
(* ProcessContent leaves it as it is.                                      *)
(***************************************************************************)
C29_Idempotent ==
    pc = "done" =>
        /\ processed_content = ProcessContent(content)
        /\ ProcessContent(processed_content) = processed_content

\* the second run appends a break where the first run put one: the four
\* newlines are collapsed to the two of the text
C29_Witness ==
    /\ pc = "done"
    /\ content = <<"a", FwPeriod, DQ, FwPeriod>>
    /\ processed_content = <<"a", FwPeriod, NL, NL, DQ, FwPeriod>>
    /\ Join(ScanPieces(processed_content, FALSE, None))
           = <<"a", FwPeriod, NL, NL, NL, NL, DQ, FwPeriod>>
    /\ ProcessContent(processed_content) = processed_content

(***************************************************************************)
(* C30: the ranking is deterministic on ties: documents of equal mean      *)
(* density stand in the sorted list, and so in the ranking, in the order   *)
(* in which their records were collected into results.                     *)
(***************************************************************************)
\* the place of a record in results; a record is known by its filename
C30_Collected(r) ==
    CHOOSE k \in DOMAIN results : results[k].filename = r.filename

C30_Tie(r1, r2) ==
    /\ ~RatGT(r1.average_density, r2.average_density)
    /\ ~RatGT(r2.average_density, r1.average_density)

C30_InCollectionOrder(rs) ==
    \A a \in DOMAIN rs : \A b \in DOMAIN rs :
        (a < b /\ C30_Tie(rs[a], rs[b]))
            => C30_Collected(rs[a]) < C30_Collected(rs[b])

C30_TiesKeepOrder ==
    (pc = "done" /\ report # NoneRec) =>
        /\ C30_InCollectionOrder(report.summary.sorted_results)
        /\ C30_InCollectionOrder(report.summary.ranking)

\* the first and the third file tie above the second one
C30_Witness ==
    /\ pc = "done" /\ report # NoneRec
    /\ Len(results) = 3 /\ Len(report.summary.ranking) = 3
    /\ C30_Tie(results[1], results[3])
    /\ RatGT(results[1].average_density, results[2].average_density)
    /\ [k \in 1..3 |-> report.summary.ranking[k].filename] = <<1, 3, 2>>

====
